---- MODULE Spec2Model ----
(***************************************************************************)
(* The semantic clustering engine of BetterMonitor: the process vector     *)
(* store (electron/preload.ts, class ProcessVectorStore), the persistent   *)
(* embedding cache (electron/database.ts) and the two-tier clustering      *)
(* (electron/openrouter.ts, "Process Clustering Module").                  *)
(*                                                                         *)
(* Numbers: embeddings are vectors of integers, a centroid is a rational   *)
(* vector [num, den] (num / den element-wise), and a cosine similarity is  *)
(* kept as the exact triple [dot, ma, mb] = dot / sqrt(ma * mb), compared  *)
(* by cross-multiplication, so no rounding enters the model.               *)
(***************************************************************************)
EXTENDS Integers, Sequences, FiniteSets, TLC

\* ------------------------------------------------------------------ strings

Range(f) == {f[x] : x \in DOMAIN f}

Min2(a, b) == IF a < b THEN a ELSE b

\* s.slice(0, n)
Slice0(s, n) == SubSeq(s, 1, Min2(Len(s), n))

\* the character of s at (1-based) position i, "" past the end
CharAt(s, i) == IF i >= 1 /\ i <= Len(s) THEN SubSeq(s, i, i) ELSE ""

\* s has the literal lit at position i
HasAt(s, i, lit) == i + Len(lit) - 1 <= Len(s) /\ SubSeq(s, i, i + Len(lit) - 1) = lit

\* \s of a JavaScript regular expression, on the ASCII characters
Whitespace == {" ", "\t", "\n", "\r", "\f"}

\* length of the longest run of characters outside stop that starts at i
RECURSIVE RunLen(_, _, _)
RunLen(s, i, stop) ==
  IF i > Len(s) \/ CharAt(s, i) \in stop THEN 0 ELSE 1 + RunLen(s, i + 1, stop)

\* length matched at i by the literal lit, 0 for no match
MatchLit(s, i, lit) == IF HasAt(s, i, lit) THEN Len(lit) ELSE 0

\* length matched at i by  prefix [^stop]+  (greedy), 0 for no match
MatchRun(s, i, prefix, stop) ==
  IF HasAt(s, i, prefix) /\ RunLen(s, i + Len(prefix), stop) >= 1
  THEN Len(prefix) + RunLen(s, i + Len(prefix), stop)
  ELSE 0

\* length matched at i by  prefix [^/]+ tail after  where after begins with
\* "/": the run of non-slash characters must end in tail, with at least one
\* character before it, and be followed by after
MatchSeg(s, i, prefix, tail, after) ==
  LET r == RunLen(s, i + Len(prefix), {"/"})
      e == i + Len(prefix) + r
  IN IF /\ HasAt(s, i, prefix)
        /\ r >= Len(tail) + 1
        /\ SubSeq(s, e - Len(tail), e - 1) = tail
        /\ HasAt(s, e, after)
     THEN Len(prefix) + r + Len(after)
     ELSE 0

\* kinds of pattern of summarizeCommand
MatchPat(s, i, pat) ==
  IF pat.kind = "lit" THEN MatchLit(s, i, pat.prefix)
  ELSE IF pat.kind = "run" THEN MatchRun(s, i, pat.prefix, Whitespace)
  ELSE MatchSeg(s, i, pat.prefix, pat.tail, pat.after)

\* s.replace(/pat/g, rep): leftmost matches, left to right, not overlapping
RECURSIVE ReplaceFrom(_, _, _)
ReplaceFrom(s, i, pat) ==
  IF i > Len(s) THEN ""
  ELSE LET m == MatchPat(s, i, pat)
       IN IF m > 0 THEN pat.rep \o ReplaceFrom(s, i + m, pat)
          ELSE CharAt(s, i) \o ReplaceFrom(s, i + 1, pat)

ReplaceAll(s, pat) == ReplaceFrom(s, 1, pat)

\* the replacements of summarizeCommand, in the order they are applied
PathPatterns ==
  << [kind |-> "seg", prefix |-> "/Applications/", tail |-> ".app",
      after |-> "/Contents/MacOS/", rep |-> ""],
     [kind |-> "lit", prefix |-> "/usr/local/bin/", rep |-> ""],
     [kind |-> "lit", prefix |-> "/usr/bin/", rep |-> ""],
     [kind |-> "lit", prefix |-> "/opt/homebrew/bin/", rep |-> ""],
     [kind |-> "run", prefix |-> "/System/Library/", rep |-> "[system]"],
     [kind |-> "run", prefix |-> "/Library/", rep |-> "[library]"],
     [kind |-> "seg", prefix |-> "/Users/", tail |-> "", after |-> "/", rep |-> "~/"],
     [kind |-> "run", prefix |-> "/private/var/", rep |-> "[var]"] >>

RECURSIVE ApplyPatterns(_, _)
ApplyPatterns(s, k) ==
  IF k > Len(PathPatterns) THEN s
  ELSE ApplyPatterns(ReplaceAll(s, PathPatterns[k]), k + 1)

SummaryMax == 200
KeyMax == 500

summarizeCommand(command) ==
  IF command = "" THEN ""
  ELSE LET summary == ApplyPatterns(command, 1)
       IN IF Len(summary) > SummaryMax
          THEN SubSeq(summary, 1, SummaryMax) \o "..."
          ELSE summary

processToText(p) == p.name \o ": " \o summarizeCommand(p.command)

getKey(p) == Slice0(p.name \o "::" \o p.command, KeyMax)

\* ------------------------------------------------------ persistent cache key

\* the printable ASCII characters from code 32 (space) to 95 (_), and from 97
\* (a) to 126 (~); the grave accent (96) cannot be written in a TLA+ string
AsciiLow == " !\"#$%&'()*+,-./0123456789:;<=>?@ABCDEFGHIJKLMNOPQRSTUVWXYZ[\\]^_"
AsciiHigh == "abcdefghijklmnopqrstuvwxyz{|}~"

FirstLow == 32
FirstHigh == 97
TwoTo16 == 65536

IndexIn(str, c) == CHOOSE k \in 1..Len(str) : SubSeq(str, k, k) = c

\* text.charCodeAt(i - 1)
charCodeAt(s, i) ==
  LET c == CharAt(s, i)
  IN IF \E k \in 1..Len(AsciiLow) : SubSeq(AsciiLow, k, k) = c
     THEN FirstLow - 1 + IndexIn(AsciiLow, c)
     ELSE FirstHigh - 1 + IndexIn(AsciiHigh, c)

\* ((hash << 5) - hash) + char, cut to a signed 32-bit integer by hash & hash;
\* computed on 16-bit halves so that no intermediate value leaves 32 bits
HashStep(hash, char) ==
  LET lo == hash % TwoTo16
      hi == ((hash - lo) \div TwoTo16) % TwoTo16
      lo2 == lo * 31 + char
      hi2 == (hi * 31 + (lo2 \div TwoTo16)) % TwoTo16
  IN (IF hi2 >= TwoTo16 \div 2 THEN hi2 - TwoTo16 ELSE hi2) * TwoTo16 + (lo2 % TwoTo16)

RECURSIVE HashFrom(_, _, _)
HashFrom(text, i, hash) ==
  IF i > Len(text) THEN hash
  ELSE LET next == HashStep(hash, charCodeAt(text, i))
       IN IF next \in Int THEN HashFrom(text, i + 1, next) ELSE next

\* hashText(text); hash.toString(16) is one-to-one on the 32-bit integers, so
\* the integer itself stands for the hexadecimal string
hashText(text) == HashFrom(text, 1, 0)

\* ------------------------------------------------------------------ numbers

RECURSIVE Gcd(_, _)
Gcd(a, b) == IF b = 0 THEN a ELSE Gcd(b, a % b)

Abs(a) == IF a < 0 THEN -a ELSE a

RECURSIVE SumSeq(_)
SumSeq(s) == IF s = <<>> THEN 0 ELSE Head(s) + SumSeq(Tail(s))

RECURSIVE ProdSeq(_)
ProdSeq(s) == IF s = <<>> THEN 1 ELSE Head(s) * ProdSeq(Tail(s))

\* an embedding the provider returned, as a rational vector
Emb(v) == [num |-> v, den |-> 1]

\* the empty centroid []
EmptyVec == [num |-> <<>>, den |-> 1]

VecLen(a) == Len(a.num)

\* num / den with the common factor of den and every component removed
Reduce(num, den) ==
  LET RECURSIVE G(_, _)
      G(k, g) == IF k > Len(num) THEN g ELSE G(k + 1, Gcd(g, Abs(num[k])))
      g == G(1, den)
  IN [num |-> [k \in 1..Len(num) |-> num[k] \div g], den |-> den \div g]

\* ProcessVectorStore.calculateCentroid: the element-wise mean over the
\* dimension of the first embedding, [] for no embeddings
calculateCentroid(embeddings) ==
  IF Len(embeddings) = 0 THEN EmptyVec
  ELSE LET dim == VecLen(embeddings[1])
           n == Len(embeddings)
           dens == [k \in 1..n |-> embeddings[k].den]
           common == ProdSeq(dens)
           total(i) == SumSeq([k \in 1..n |->
                          embeddings[k].num[i] * (common \div embeddings[k].den)])
       IN Reduce([i \in 1..dim |-> total(i)], common * n)

\* cosineSimilarity(a, b): throws on different lengths, 0 when a magnitude is
\* 0, else dot / sqrt(ma * mb).  Scaling a vector by 1 / den > 0 leaves the
\* cosine unchanged, so it is computed on the numerators.
cosineSimilarity(a, b) ==
  IF VecLen(a) # VecLen(b) THEN [throws |-> TRUE, dot |-> 0, ma |-> 1, mb |-> 1]
  ELSE LET n == VecLen(a)
           dot == SumSeq([i \in 1..n |-> a.num[i] * b.num[i]])
           ma == SumSeq([i \in 1..n |-> a.num[i] * a.num[i]])
           mb == SumSeq([i \in 1..n |-> b.num[i] * b.num[i]])
       IN IF ma = 0 \/ mb = 0
          THEN [throws |-> FALSE, dot |-> 0, ma |-> 1, mb |-> 1]
          ELSE [throws |-> FALSE, dot |-> dot, ma |-> ma, mb |-> mb]

\* the similarity 0 that bestSimilarity starts from
SimZero == [throws |-> FALSE, dot |-> 0, ma |-> 1, mb |-> 1]

\* a / b < c / d for a, c >= 0 and b, d > 0, by the continued fractions of
\* the two quotients, so that no product leaves the range of the integers
RECURSIVE FracLess(_, _, _, _)
FracLess(a, b, c, d) ==
  IF a \div b # c \div d THEN a \div b < c \div d
  ELSE IF c % d = 0 THEN FALSE
  ELSE IF a % b = 0 THEN TRUE
  ELSE FracLess(d, c % d, b, a % b)

\* s >= p / q for a threshold p / q >= 0
SimGE(s, p, q) ==
  /\ s.dot >= 0
  /\ ~FracLess(s.dot * s.dot, s.ma * s.mb, p * p, q * q)

\* s > t
SimGT(s, t) ==
  IF s.dot >= 0 /\ t.dot >= 0
  THEN FracLess(t.dot * t.dot, t.ma * t.mb, s.dot * s.dot, s.ma * s.mb)
  ELSE IF s.dot < 0 /\ t.dot < 0
  THEN FracLess(s.dot * s.dot, s.ma * s.mb, t.dot * t.dot, t.ma * t.mb)
  ELSE s.dot >= 0

\* --------------------------------------------------------------- processes

\* netIn / netOut of a descriptor that does not carry the optional field
\* (the counters themselves are never negative)
Undefined == -1

\* x || 0
OrZero(x) == IF x = Undefined THEN 0 ELSE x

\* The process descriptors the model draws its inputs from.  cpu is in
\* percent; mem is in tenths of a megabyte, so that the 0.1 MB of the activity
\* filter is the integer 1.
ProcTable ==
  << [pid |-> 101, name |-> "node", command |-> "node server.js",
      cpu |-> 5, mem |-> 200, netIn |-> 0, netOut |-> 0],
     [pid |-> 102, name |-> "node", command |-> "node server.js",
      cpu |-> 3, mem |-> 0, netIn |-> Undefined, netOut |-> Undefined],
     [pid |-> 103, name |-> "node", command |-> "/usr/local/bin/node worker.js",
      cpu |-> 0, mem |-> 0, netIn |-> 7, netOut |-> 0],
     [pid |-> 104, name |-> "Safari",
      command |-> "/Applications/Safari.app/Contents/MacOS/Safari",
      cpu |-> 10, mem |-> 900, netIn |-> 4, netOut |-> 2],
     [pid |-> 105, name |-> "mdworker", command |-> "mdworker -s mdworker",
      cpu |-> 0, mem |-> 1, netIn |-> Undefined, netOut |-> 0],
     [pid |-> 106, name |-> "zsh", command |-> "-zsh",
      cpu |-> 0, mem |-> 2, netIn |-> 0, netOut |-> 0],
     [pid |-> 107, name |-> "Slack", command |-> "Slack",
      cpu |-> 2, mem |-> 300, netIn |-> 1, netOut |-> 1],
     [pid |-> 108, name |-> "Spotify", command |-> "Spotify",
      cpu |-> 1, mem |-> 150, netIn |-> 9, netOut |-> 0],
     [pid |-> 109, name |-> "launchd", command |-> "/sbin/launchd",
      cpu |-> 1, mem |-> 10, netIn |-> 0, netOut |-> 0],
     [pid |-> 110, name |-> "Finder", command |-> "Finder",
      cpu |-> 1, mem |-> 80, netIn |-> 0, netOut |-> 0] >>

ProcIds == DOMAIN ProcTable

\* key, text and text hash of every descriptor of the table, each computed
\* once: concatenation turns the function into a tuple of values
KeyOf == [i \in ProcIds |-> getKey(ProcTable[i])] \o <<>>
TextOf == [i \in ProcIds |-> processToText(ProcTable[i])] \o <<>>
HashOf == [i \in ProcIds |-> hashText(TextOf[i])] \o <<>>

\* the first descriptor of the table with a text
FirstWithText(text) ==
  CHOOSE i \in ProcIds : TextOf[i] = text /\ \A j \in ProcIds : TextOf[j] = text => i <= j

\* hashText(text), from the table
TextHash(text) == HashOf[FirstWithText(text)]

\* -------------------------------------------------------- embedding provider

\* The provider is a service outside the program.  A call either fails or
\* returns one vector per text; which vectors is the provider's choice, drawn
\* here from two answer tables (one row per table, one column per descriptor
\* of ProcTable, descriptors with one text sharing the column of the first).
\* Table 1 spreads the texts of the descriptors that pass the activity filter
\* over directions that are pairwise below the merge threshold; table 2 puts
\* several texts close together, <<1, 0>> and <<4, 3>> exactly at cosine 0.8.
AnswerTables ==
  << << <<1, 0>>, <<1, 0>>, <<1, 1>>, <<0, 1>>, <<0, 2>>,
        <<-1, 1>>, <<-1, 0>>, <<-1, -1>>, <<0, -1>>, <<1, -1>> >>,
     << <<2, 0>>, <<2, 0>>, <<3, 1>>, <<4, 3>>, <<0, 1>>,
        <<1, 3>>, <<-1, 0>>, <<-3, 1>>, <<0, -1>>, <<1, -1>> >> >>

Answers == DOMAIN AnswerTables

\* the embedding answer table m gives for a text
Provider(m, text) == Emb(AnswerTables[m][FirstWithText(text)])

\* ------------------------------------------------------------------- maps

EmptyMap == [x \in {} |-> 0]

MapSet(f, k, v) == [x \in DOMAIN f \cup {k} |-> IF x = k THEN v ELSE f[x]]

MapDelete(f, k) == [x \in DOMAIN f \ {k} |-> f[x]]

\* ------------------------------------------------------------------- state

VARIABLES
  vectors,            \* ProcessVectorStore.vectors: key -> ProcessVector
  pendingEmbeddings,  \* ProcessVectorStore.pendingEmbeddings: key -> fetch
  dbCache,            \* table process_embeddings: text_hash -> embedding
  requests,           \* every provider call issued so far, in order
  tasks,              \* every call of an exported operation made so far
  currentClusters,    \* let currentClusters
  lastFullRecluster,  \* let lastFullRecluster
  singletonCount,     \* let singletonCount
  idCounter,          \* the cluster ids generated so far
  now                 \* Date.now()

vars == << vectors, pendingEmbeddings, dbCache, requests, tasks,
           currentClusters, lastFullRecluster, singletonCount, idCounter, now >>

storeVars == << vectors, pendingEmbeddings, dbCache >>
clusterVars == << currentClusters, lastFullRecluster, singletonCount, idCounter, now >>

\* a vector stored in memory without its embedding: what C13 rules out
ProcessVectorWithoutEmbedding(i, embedding) ==
  [pid |-> ProcTable[i].pid, name |-> ProcTable[i].name,
   command |-> ProcTable[i].command, embedding |-> EmptyVec, text |-> TextOf[i]]

\* the ProcessVector stored for descriptor i with an embedding
ProcessVector(i, embedding) ==
  [pid |-> ProcTable[i].pid, name |-> ProcTable[i].name,
   command |-> ProcTable[i].command, embedding |-> embedding, text |-> TextOf[i]]

\* null, where an embedding may stand: no vector has denominator 0
NoRow == [num |-> <<>>, den |-> 0]

\* getCachedEmbedding(text): the row of the text's hash, null for none
getCachedEmbedding(db, text) ==
  IF TextHash(text) \in DOMAIN db THEN db[TextHash(text)] ELSE NoRow

\* a cacheEmbedding that writes nothing: what the write-through of C3 rules out
cacheEmbeddingSkip(db, text, embedding) == db

\* cacheEmbedding(text, embedding): INSERT OR REPLACE under the text's hash
cacheEmbedding(db, text, embedding) == MapSet(db, TextHash(text), embedding)

\* a provider call: the descriptors whose texts it carries, who issued it,
\* and how it ended
Request(kind, task, procs) ==
  [kind |-> kind, task |-> task, procs |-> procs, status |-> "inflight"]

InFlight == {r \in DOMAIN requests : requests[r].status = "inflight"}

RequestKeys(r) == {KeyOf[requests[r].procs[k]] : k \in DOMAIN requests[r].procs}

\* batchSize of batchGetEmbeddings (50 in the source), scaled down so that a
\* call of a few descriptors is split into several provider calls
BatchSize == 2

\* a call in progress or finished.  kind is the operation, procs its
\* argument, pc "await" while suspended on provider call `awaiting` (kept
\* when the call is done; 0 for a call that never suspended); uncached,
\* offset and result are the locals of batchGetEmbeddings (uncached, i,
\* result); active is activeProcesses of fullRecluster; outcome is how the
\* returned promise settled, value the vector and tree the ClusterTree it
\* settled with.
Task(kind, procs) ==
  [kind |-> kind, procs |-> procs, pc |-> "await", awaiting |-> 0,
   uncached |-> <<>>, offset |-> 0, result |-> EmptyMap,
   outcome |-> "pending", value |-> NoRow, active |-> <<>>, tree |-> <<>>]

Fulfilled(t, v) == [t EXCEPT !.pc = "done", !.outcome = "fulfilled", !.value = v]
Rejected(t) == [t EXCEPT !.pc = "done", !.outcome = "rejected"]

\* ------------------------------------------------------- the vector store

\* a store that never finds a registered fetch: what C1 rules out
HasPendingNever(pending, key) == FALSE

\* getProcessEmbedding, line 259: a fetch for the key is already registered
HasPending(pending, key) == key \in DOMAIN pending

\* getProcessEmbedding(process) up to its return: the in-memory map, then the
\* registered fetch, then the database, then a new fetch that is registered
\* under the key.  The async function that fetches runs up to its first
\* await, so the provider call is issued within the call.
GetProcessEmbedding(i) ==
  LET key == KeyOf[i]
      cached == getCachedEmbedding(dbCache, TextOf[i])
      t == Task("get", <<i>>)
      r == Len(requests) + 1
  IN IF key \in DOMAIN vectors
     THEN /\ tasks' = Append(tasks, Fulfilled(t, vectors[key].embedding))
          /\ UNCHANGED << storeVars, requests >>
     ELSE IF HasPending(pendingEmbeddings, key)
     THEN /\ tasks' = Append(tasks,
               IF requests[pendingEmbeddings[key]].status = "inflight"
               THEN [t EXCEPT !.awaiting = pendingEmbeddings[key]]
               ELSE Rejected(t))
          /\ UNCHANGED << storeVars, requests >>
     ELSE IF cached # NoRow
     THEN /\ vectors' = MapSet(vectors, key, ProcessVector(i, cached))
          /\ tasks' = Append(tasks, Fulfilled(t, cached))
          /\ UNCHANGED << pendingEmbeddings, dbCache, requests >>
     ELSE /\ requests' = Append(requests, Request("single", Len(tasks) + 1, <<i>>))
          /\ pendingEmbeddings' = MapSet(pendingEmbeddings, key, r)
          /\ tasks' = Append(tasks, [t EXCEPT !.awaiting = r])
          /\ UNCHANGED << vectors, dbCache >>

\* every caller that holds the promise of fetch r sees it settle
Settle(r, ok, embedding) ==
  [k \in DOMAIN tasks |->
     IF tasks[k].kind = "get" /\ tasks[k].pc = "await" /\ tasks[k].awaiting = r
     THEN IF ok THEN Fulfilled(tasks[k], embedding) ELSE Rejected(tasks[k])
     ELSE tasks[k]]

\* the fetch of getProcessEmbedding resumes with the provider's answer:
\* database, in-memory map, then the registration is deleted
SingleFetchOk(r, m) ==
  LET i == requests[r].procs[1]
      embedding == Provider(m, TextOf[i])
  IN /\ requests[r].kind = "single" /\ requests[r].status = "inflight"
     /\ dbCache' = cacheEmbedding(dbCache, TextOf[i], embedding)
     /\ vectors' = MapSet(vectors, KeyOf[i], ProcessVector(i, embedding))
     /\ pendingEmbeddings' = MapDelete(pendingEmbeddings, KeyOf[i])
     /\ requests' = [requests EXCEPT ![r].status = "ok"]
     /\ tasks' = Settle(r, TRUE, embedding)

\* the provider call of getProcessEmbedding fails: the fetch rejects before
\* it reaches pendingEmbeddings.delete
SingleFetchFail(r) ==
  /\ requests[r].kind = "single" /\ requests[r].status = "inflight"
  /\ requests' = [requests EXCEPT ![r].status = "failed"]
  /\ tasks' = Settle(r, FALSE, NoRow)
  /\ UNCHANGED storeVars

\* the first pass of batchGetEmbeddings over processes[k..]: in-memory map,
\* then database (copied into the map), else uncached
RECURSIVE FirstPass(_, _, _, _, _, _)
FirstPass(procs, k, vecs, db, result, uncached) ==
  IF k > Len(procs)
  THEN [vectors |-> vecs, result |-> result, uncached |-> uncached]
  ELSE LET i == procs[k]
           key == KeyOf[i]
           cached == getCachedEmbedding(db, TextOf[i])
       IN IF key \in DOMAIN vecs
          THEN FirstPass(procs, k + 1, vecs, db,
                         MapSet(result, key, vecs[key].embedding), uncached)
          ELSE IF cached # NoRow
          THEN FirstPass(procs, k + 1, MapSet(vecs, key, ProcessVector(i, cached)), db,
                         MapSet(result, key, cached), uncached)
          ELSE FirstPass(procs, k + 1, vecs, db, result, Append(uncached, i))

\* uncached.slice(i, i + batchSize), i counted from 0
BatchItems(uncached, offset) ==
  SubSeq(uncached, offset + 1, Min2(Len(uncached), offset + BatchSize))

\* the loop over the embeddings of one answered batch, from position j:
\* database, in-memory map, result
RECURSIVE StoreBatch(_, _, _, _, _, _)
StoreBatch(items, m, j, vecs, db, result) ==
  IF j > Len(items)
  THEN [vectors |-> vecs, db |-> db, result |-> result]
  ELSE LET i == items[j]
           embedding == Provider(m, TextOf[i])
       IN StoreBatch(items, m, j + 1,
                     MapSet(vecs, KeyOf[i], ProcessVector(i, embedding)),
                     cacheEmbedding(db, TextOf[i], embedding),
                     MapSet(result, KeyOf[i], embedding))

\* -------------------------------------------------------------- clustering

SIMILARITY_THRESHOLD == [num |-> 3, den |-> 4]
MERGE_THRESHOLD == [num |-> 4, den |-> 5]
\* MAX_CLUSTER_SIZE (25 in the source), scaled down so that the names of the
\* descriptor table are enough to reach the limit
MAX_CLUSTER_SIZE == 3
MIN_CLUSTER_SIZE == 2

\* the number of clusters up to which the post-filter keeps small clusters
KeepAllUpTo == 5

\* the id of the virtual root, 'root'; generated ids are 1, 2, ...
RootId == 0

\* parent: null
NoParent == -1

ZeroStats ==
  [totalCpu |-> 0, totalMem |-> 0, totalNetIn |-> 0, totalNetOut |-> 0, processCount |-> 0]

\* createEmptyCluster(overrides), for the overrides id, processIds, centroid
createEmptyCluster(id, processIds, centroid) ==
  [id |-> id, name |-> "Uncategorized", description |-> "", category |-> "Other",
   processIds |-> processIds, centroid |-> centroid, children |-> <<>>,
   parent |-> NoParent, depth |-> 1, aggregateStats |-> ZeroStats]

\* the filter of fullRecluster: a descriptor is dropped only when it is idle
\* on every axis (mem is in tenths of a megabyte)
IsActive(p) == p.cpu > 0 \/ p.mem > 1 \/ OrZero(p.netIn) > 0 \/ OrZero(p.netOut) > 0

ActiveProcesses(procs) == SelectSeq(procs, LAMBDA i : IsActive(ProcTable[i]))

\* grouping by name and command: what the amended C8 rules out
GroupKeyWithCommand(i) == KeyOf[i]

\* the key under which fullRecluster groups a descriptor: its name
GroupKey(i) == ProcTable[i].name

\* byName: the groups in the order of their first descriptor, each with its
\* descriptors in list order
RECURSIVE GroupByName(_, _, _)
GroupByName(active, k, groups) ==
  IF k > Len(active) THEN groups
  ELSE LET i == active[k]
           at == {g \in DOMAIN groups : groups[g].key = GroupKey(i)}
       IN IF at = {}
          THEN GroupByName(active, k + 1,
                           Append(groups, [key |-> GroupKey(i), procs |-> <<i>>]))
          ELSE LET g == CHOOSE x \in at : TRUE
               IN GroupByName(active, k + 1,
                              [groups EXCEPT ![g].procs = Append(@, i)])

ByName(active) == GroupByName(active, 1, <<>>)

\* uniqueProcesses: the first descriptor of every group
UniqueProcesses(groups) == [g \in DOMAIN groups |-> groups[g].procs[1]]

\* processEmbeddings: one item per group whose representative's key is in the
\* map batchGetEmbeddings returned
RECURSIVE ProcessEmbeddings(_, _, _)
ProcessEmbeddings(groups, g, embeddingsMap) ==
  IF g > Len(groups) THEN <<>>
  ELSE LET representative == groups[g].procs[1]
           key == KeyOf[representative]
           rest == ProcessEmbeddings(groups, g + 1, embeddingsMap)
       IN IF key \in DOMAIN embeddingsMap
          THEN << [process |-> representative,
                   embedding |-> embeddingsMap[key],
                   allPids |-> [n \in DOMAIN groups[g].procs |->
                                  ProcTable[groups[g].procs[n]].pid]] >> \o rest
          ELSE rest

\* a scan that asks for more than the merge threshold: what C11 rules out
BetterAboveThreshold(similarity, best) ==
  /\ SimGT(similarity, best.similarity)
  /\ SimGT(similarity, [throws |-> FALSE, dot |-> MERGE_THRESHOLD.num,
                        ma |-> MERGE_THRESHOLD.den * MERGE_THRESHOLD.den, mb |-> 1])

\* a scan in which a later pair of the same similarity replaces the best so
\* far: what C32 rules out
BetterOrEqual(similarity, best) ==
  /\ ~SimGT(best.similarity, similarity)
  /\ SimGE(similarity, MERGE_THRESHOLD.num, MERGE_THRESHOLD.den)

\* line 523: the pair replaces the best so far
Better(similarity, best) ==
  /\ SimGT(similarity, best.similarity)
  /\ SimGE(similarity, MERGE_THRESHOLD.num, MERGE_THRESHOLD.den)

\* the scan for the most similar pair, row-major from (i, j); best is the pair
\* found so far (<<>> for none) and its similarity
RECURSIVE ScanPairs(_, _, _, _)
ScanPairs(clusters, i, j, best) ==
  IF i > Len(clusters) THEN best
  ELSE IF j > Len(clusters) THEN ScanPairs(clusters, i + 1, i + 2, best)
  ELSE IF Better(cosineSimilarity(clusters[i].centroid, clusters[j].centroid), best)
  THEN ScanPairs(clusters, i, j + 1,
                 [pair |-> <<i, j>>,
                  similarity |-> cosineSimilarity(clusters[i].centroid,
                                                  clusters[j].centroid)])
  ELSE ScanPairs(clusters, i, j + 1, best)

BestPair(clusters) == ScanPairs(clusters, 1, 2, [pair |-> <<>>, similarity |-> SimZero])

\* the cluster that replaces clusters i and j
MergePair(clusters, i, j, id) ==
  [id |-> id,
   processIds |-> clusters[i].processIds \o clusters[j].processIds,
   embeddings |-> clusters[i].embeddings \o clusters[j].embeddings,
   centroid |-> calculateCentroid(clusters[i].embeddings \o clusters[j].embeddings)]

\* a filter that leaves cluster i in the list next to the merged cluster: what
\* C9 rules out
WithoutSecond(clusters, i, j) ==
  SubSeq(clusters, 1, j - 1) \o SubSeq(clusters, j + 1, Len(clusters))

\* clusters.filter((_, idx) => idx !== i && idx !== j)
Without(clusters, i, j) ==
  LET keep == SelectSeq([n \in DOMAIN clusters |-> n], LAMBDA n : n # i /\ n # j)
  IN [n \in DOMAIN keep |-> clusters[keep[n]]]

\* a merge that ignores the size limit: what C12 rules out
WithinSizeLimitAlways(merged1, merged2) == TRUE

\* line 537: the size limit, counted in embeddings (one per name)
WithinSizeLimit(merged1, merged2) ==
  Len(merged1.embeddings) + Len(merged2.embeddings) <= MAX_CLUSTER_SIZE

\* one round of the merge loop with the best pair it found: without a pair,
\* or with a pair the size limit forbids, the loop ends
RECURSIVE MergeRound(_, _, _)

\* the merge loop: while the last round merged and more than one cluster is
\* left, merge the best pair if there is one and the size limit allows it
MergeLoop(clusters, lastId) ==
  IF Len(clusters) <= 1 THEN [clusters |-> clusters, lastId |-> lastId]
  ELSE MergeRound(clusters, lastId, BestPair(clusters).pair)

MergeRound(clusters, lastId, bestPair) ==
  IF bestPair = <<>>
  THEN [clusters |-> clusters, lastId |-> lastId]
  ELSE IF WithinSizeLimit(clusters[bestPair[1]], clusters[bestPair[2]])
  THEN MergeLoop(Append(Without(clusters, bestPair[1], bestPair[2]),
                        MergePair(clusters, bestPair[1], bestPair[2], lastId + 1)),
                 lastId + 1)
  ELSE [clusters |-> clusters, lastId |-> lastId]

\* a post-filter that drops every cluster of one embedding: what C14 rules out
PostFilterAlways(clusters) ==
  SelectSeq(clusters, LAMBDA c : Len(c.embeddings) >= MIN_CLUSTER_SIZE)

\* the post-filter: a cluster of fewer than MIN_CLUSTER_SIZE embeddings is
\* kept only when there are at most five clusters
PostFilter(clusters) ==
  SelectSeq(clusters, LAMBDA c :
    Len(c.embeddings) >= MIN_CLUSTER_SIZE \/ Len(clusters) <= KeepAllUpTo)

\* some pair of items has embeddings of different lengths: the first scan
\* computes every pair's similarity, and cosineSimilarity throws
DimensionMismatch(items) ==
  /\ Len(items) > 1
  /\ \E a, b \in DOMAIN items :
       cosineSimilarity(items[a].embedding, items[b].embedding).throws

\* items.map(...): every item in a cluster of its own, with ids after lastId
StartClusters(items, lastId) ==
  [n \in DOMAIN items |->
     [id |-> lastId + n,
      processIds |-> items[n].allPids,
      embeddings |-> << items[n].embedding >>,
      centroid |-> items[n].embedding]] \o <<>>

\* .map(c => createEmptyCluster({id, processIds, centroid}))
ToProcessClusters(kept) ==
  [n \in DOMAIN kept |->
     createEmptyCluster(kept[n].id, kept[n].processIds, kept[n].centroid)] \o <<>>

\* the return of agglomerativeClusterWithPids for what the merge loop left
Converted(merged) ==
  [clusters |-> ToProcessClusters(PostFilter(merged.clusters)), lastId |-> merged.lastId]

\* agglomerativeClusterWithPids(items), the ids generated so far being
\* 1..lastId: the clusters it returns and the last id it generated
agglomerativeClusterWithPids(items, lastId) ==
  IF Len(items) = 0 THEN [clusters |-> <<>>, lastId |-> lastId]
  ELSE Converted(MergeLoop(StartClusters(items, lastId), lastId + Len(items)))

\* ------------------------------------------------------------------ naming

Upper == "ABCDEFGHIJKLMNOPQRSTUVWXYZ"
Lower == "abcdefghijklmnopqrstuvwxyz"

LowerChar(c) ==
  IF \E k \in 1..Len(Upper) : SubSeq(Upper, k, k) = c
  THEN LET k == IndexIn(Upper, c) IN SubSeq(Lower, k, k)
  ELSE c

\* s.toLowerCase()
RECURSIVE toLowerCase(_)
toLowerCase(s) ==
  IF Len(s) = 0 THEN ""
  ELSE LowerChar(SubSeq(s, 1, 1)) \o toLowerCase(SubSeq(s, 2, Len(s)))

\* names.join(' ')
RECURSIVE Join(_)
Join(names) ==
  IF Len(names) = 0 THEN ""
  ELSE IF Len(names) = 1 THEN names[1]
  ELSE names[1] \o " " \o Join(Tail(names))

\* s.startsWith(prefix)
startsWith(s, prefix) == HasAt(s, 1, prefix)

Contains(s, sub) == \E i \in 1..Len(s) : HasAt(s, i, sub)

\* /a|b|c/.test(s)
TestAny(s, words) == \E w \in Range(words) : Contains(s, w)

\* the keyword sets of inferCategory, in the order they are tested
CategoryPatterns ==
  << [category |-> "Browser",
      words |-> <<"chrome", "safari", "firefox", "edge", "browser", "webkit">>],
     [category |-> "Development",
      words |-> <<"node", "python", "ruby", "java", "vscode", "xcode", "git", "npm", "yarn">>],
     [category |-> "Communication",
      words |-> <<"slack", "zoom", "teams", "discord", "telegram", "messages">>],
     [category |-> "Media",
      words |-> <<"spotify", "music", "video", "vlc", "quicktime", "audio">>],
     [category |-> "System",
      words |-> <<"kernel", "launchd", "system", "daemon", "agent">>],
     [category |-> "Background",
      words |-> <<"helper", "agent", "service", "worker">>] >>

\* the last keyword set that matches wins: what C29 rules out
RECURSIVE LastCategory(_, _)
LastCategory(joined, k) ==
  IF k > Len(CategoryPatterns) THEN "Other"
  ELSE IF LastCategory(joined, k + 1) # "Other" THEN LastCategory(joined, k + 1)
  ELSE IF TestAny(joined, CategoryPatterns[k].words) THEN CategoryPatterns[k].category
  ELSE "Other"

RECURSIVE FirstCategory(_, _)
FirstCategory(joined, k) ==
  IF k > Len(CategoryPatterns) THEN "Other"
  ELSE IF TestAny(joined, CategoryPatterns[k].words) THEN CategoryPatterns[k].category
  ELSE FirstCategory(joined, k + 1)

inferCategory(names) == FirstCategory(toLowerCase(Join(names)), 1)

\* the prefix of findCommonPrefix cut until strings[i] starts with it
RECURSIVE CutPrefix(_, _)
CutPrefix(str, prefix) ==
  IF startsWith(str, prefix) \/ Len(prefix) = 0 THEN prefix
  ELSE CutPrefix(str, SubSeq(prefix, 1, Len(prefix) - 1))

RECURSIVE PrefixFrom(_, _, _)
PrefixFrom(strings, i, prefix) ==
  IF i > Len(strings) THEN prefix
  ELSE PrefixFrom(strings, i + 1, CutPrefix(strings[i], prefix))

findCommonPrefix(strings) ==
  IF Len(strings) = 0 THEN ""
  ELSE IF Len(strings) = 1 THEN strings[1]
  ELSE PrefixFrom(strings, 2, strings[1])

\* [...new Set(seq)]: the first occurrences, in order
RECURSIVE Unique(_)
Unique(seq) ==
  IF Len(seq) = 0 THEN <<>>
  ELSE LET front == Unique(SubSeq(seq, 1, Len(seq) - 1))
           last == seq[Len(seq)]
       IN IF last \in Range(front) THEN front ELSE Append(front, last)

\* processes.filter(p => cluster.processIds.includes(p.pid))
ClusterProcesses(cluster, processes) ==
  SelectSeq(processes, LAMBDA i : ProcTable[i].pid \in Range(cluster.processIds))

\* category.toLowerCase() for the categories
CategoryLower(category) == toLowerCase(category)

\* the common prefix tried before the single name: what C28 rules out
NamedPrefixFirst(cluster, instances, uniqueNames, count, category, commonPrefix) ==
  IF Len(commonPrefix) >= 3
  THEN [cluster EXCEPT !.name = commonPrefix,
                       !.description = count \o " related processes",
                       !.category = category]
  ELSE IF Len(uniqueNames) = 1
  THEN [cluster EXCEPT
          !.name = uniqueNames[1],
          !.description = instances \o " instance(s) of " \o uniqueNames[1],
          !.category = category]
  ELSE [cluster EXCEPT !.name = category \o " processes",
                       !.description = count \o " " \o CategoryLower(category)
                                         \o " processes",
                       !.category = category]

\* the four naming rules, for a cluster of the given number of descriptors
\* whose names are uniqueNames.  Every name of uniqueNames is counted once, so
\* the dominant entry of rule 3 has count 1.
Named(cluster, instances, uniqueNames, count, category, commonPrefix) ==
  IF Len(uniqueNames) = 1
  THEN [cluster EXCEPT
          !.name = uniqueNames[1],
          !.description = instances \o " instance(s) of " \o uniqueNames[1],
          !.category = category]
  ELSE IF Len(commonPrefix) >= 3
  THEN [cluster EXCEPT !.name = commonPrefix,
                       !.description = count \o " related processes",
                       !.category = category]
  ELSE IF Len(uniqueNames) > 0 /\ 1 * 2 > Len(uniqueNames)
  THEN [cluster EXCEPT !.name = uniqueNames[1] \o " & related",
                       !.description = count \o " related processes",
                       !.category = category]
  ELSE [cluster EXCEPT !.name = category \o " processes",
                       !.description = count \o " " \o CategoryLower(category)
                                         \o " processes",
                       !.category = category]

NamedBy(cluster, instances, uniqueNames) ==
  Named(cluster, instances, uniqueNames, ToString(Len(uniqueNames)),
        inferCategory(uniqueNames), findCommonPrefix(uniqueNames))

NamesOf(clusterProcesses) ==
  [n \in DOMAIN clusterProcesses |-> ProcTable[clusterProcesses[n]].name] \o <<>>

NamedFrom(cluster, clusterProcesses) ==
  NamedBy(cluster, ToString(Len(clusterProcesses)), Unique(NamesOf(clusterProcesses)))

\* the body of the loop of generateClusterNames for one cluster
NameCluster(cluster, processes) ==
  NamedFrom(cluster, ClusterProcesses(cluster, processes))

generateClusterNames(clusters, processes) ==
  [n \in DOMAIN clusters |-> NameCluster(clusters[n], processes)] \o <<>>

\* ------------------------------------------------------------ stats and tree

StatsOf(clusterProcesses) ==
  [totalCpu |-> SumSeq([n \in DOMAIN clusterProcesses |-> ProcTable[clusterProcesses[n]].cpu]),
   totalMem |-> SumSeq([n \in DOMAIN clusterProcesses |-> ProcTable[clusterProcesses[n]].mem]),
   totalNetIn |-> SumSeq([n \in DOMAIN clusterProcesses |->
                            OrZero(ProcTable[clusterProcesses[n]].netIn)]),
   totalNetOut |-> SumSeq([n \in DOMAIN clusterProcesses |->
                             OrZero(ProcTable[clusterProcesses[n]].netOut)]),
   processCount |-> Len(clusterProcesses)]

\* an update that adds the new sums to the old statistics: what C21 rules out
updateClusterStatsAdding(cluster, processes) ==
  [cluster EXCEPT !.aggregateStats =
     [totalCpu |-> @.totalCpu + StatsOf(ClusterProcesses(cluster, processes)).totalCpu,
      totalMem |-> @.totalMem + StatsOf(ClusterProcesses(cluster, processes)).totalMem,
      totalNetIn |-> @.totalNetIn + StatsOf(ClusterProcesses(cluster, processes)).totalNetIn,
      totalNetOut |-> @.totalNetOut + StatsOf(ClusterProcesses(cluster, processes)).totalNetOut,
      processCount |-> @.processCount
                         + StatsOf(ClusterProcesses(cluster, processes)).processCount]]

\* updateClusterStats(cluster, processes)
updateClusterStats(cluster, processes) ==
  [cluster EXCEPT !.aggregateStats = StatsOf(ClusterProcesses(cluster, processes))]

\* the clusters with the parent references buildClusterTree sets on them
WithParent(clusters) ==
  [n \in DOMAIN clusters |-> [clusters[n] EXCEPT !.parent = RootId, !.depth = 1]] \o <<>>

\* the root of buildClusterTree over its children
RootOver(children) ==
  [createEmptyCluster(RootId, <<>>, EmptyVec) EXCEPT
     !.name = "All Processes", !.depth = 0, !.children = children,
     !.aggregateStats =
       [totalCpu |-> SumSeq([n \in DOMAIN children |-> children[n].aggregateStats.totalCpu]),
        totalMem |-> SumSeq([n \in DOMAIN children |-> children[n].aggregateStats.totalMem]),
        totalNetIn |-> SumSeq([n \in DOMAIN children |->
                                 children[n].aggregateStats.totalNetIn]),
        totalNetOut |-> SumSeq([n \in DOMAIN children |->
                                  children[n].aggregateStats.totalNetOut]),
        processCount |-> SumSeq([n \in DOMAIN children |->
                                   children[n].aggregateStats.processCount])]]

TreeOf(root, children, t) ==
  [root |-> root, flatList |-> << root >> \o children, lastUpdated |-> t]

TreeOver(children, t) == TreeOf(RootOver(children), children, t)

\* buildClusterTree(clusters) at time t
buildClusterTree(clusters, t) == TreeOver(WithParent(clusters), t)

\* an empty tree whose flat list lacks the root: what C18 rules out
createEmptyTreeNoList(t) == [TreeOver(<<>>, t) EXCEPT !.flatList = <<>>]

\* createEmptyTree() at time t
createEmptyTree(t) == TreeOver(<<>>, t)

\* --------------------------------------------------- batchGetEmbeddings

\* a publish that adds the new clusters to the old ones: what C19 rules out
PublishAdding(ts, k, embeddingsMap, clusters, lastId) ==
  /\ tasks' = [ts EXCEPT ![k] = [@ EXCEPT !.pc = "done", !.outcome = "fulfilled",
                                          !.result = embeddingsMap,
                                          !.tree = buildClusterTree(clusters, now)]]
  /\ currentClusters' = currentClusters \o WithParent(clusters)
  /\ lastFullRecluster' = now
  /\ singletonCount' = 0
  /\ idCounter' = lastId
  /\ UNCHANGED now

\* lines 481-487 of fullRecluster: the module state is replaced and the tree
\* returned
Publish(ts, k, embeddingsMap, clusters, lastId) ==
  /\ tasks' = [ts EXCEPT ![k] = [@ EXCEPT !.pc = "done", !.outcome = "fulfilled",
                                          !.result = embeddingsMap,
                                          !.tree = buildClusterTree(clusters, now)]]
  /\ currentClusters' = WithParent(clusters)
  /\ lastFullRecluster' = now
  /\ singletonCount' = 0
  /\ idCounter' = lastId
  /\ UNCHANGED now

\* clusters published with their names but before their statistics: what C30
\* rules out
NamedWithoutStats(clusters, activeProcesses) ==
  [n \in DOMAIN clusters |-> NameCluster(clusters[n], activeProcesses)] \o <<>>

\* lines 470-475: names, then stats over the active descriptors
NamedWithStats(clusters, activeProcesses) ==
  [n \in DOMAIN clusters |->
     updateClusterStats(NameCluster(clusters[n], activeProcesses), activeProcesses)] \o <<>>

Clustered(ts, k, embeddingsMap, made) ==
  Publish(ts, k, embeddingsMap, NamedWithStats(made.clusters, ts[k].active), made.lastId)

\* line 467 on: a pair of embeddings of different lengths makes the
\* clustering throw, and the call rejects with the state as it was
ClusterItems(ts, k, embeddingsMap, processEmbeddings) ==
  IF DimensionMismatch(processEmbeddings)
  THEN /\ tasks' = [ts EXCEPT ![k] = [Rejected(@) EXCEPT !.result = embeddingsMap]]
       /\ UNCHANGED clusterVars
  ELSE Clustered(ts, k, embeddingsMap,
                 agglomerativeClusterWithPids(processEmbeddings, idCounter))

\* fullRecluster of task k resumes with the map batchGetEmbeddings returned:
\* items, clusters, names, stats, tree
ReclusterResume(ts, k, embeddingsMap) ==
  ClusterItems(ts, k, embeddingsMap,
               ProcessEmbeddings(ByName(ts[k].active), 1, embeddingsMap))

\* batchGetEmbeddings of task k (of the tasks ts) returns result to its caller,
\* which for a call made by fullRecluster resumes at once
BatchReturn(ts, k, result) ==
  IF ts[k].kind = "recluster"
  THEN ReclusterResume(ts, k, result)
  ELSE /\ tasks' = [ts EXCEPT ![k] = [@ EXCEPT !.pc = "done", !.outcome = "fulfilled",
                                               !.result = result]]
       /\ UNCHANGED clusterVars

\* batchGetEmbeddings after its first pass fp: with nothing uncached it
\* returns, else it issues the provider call of the first batch
AfterFirstPass(ts, k, fp) ==
  /\ vectors' = fp.vectors
  /\ UNCHANGED << pendingEmbeddings, dbCache >>
  /\ IF Len(fp.uncached) = 0
     THEN /\ requests' = requests
          /\ BatchReturn(ts, k, fp.result)
     ELSE /\ requests' = Append(requests, Request("batch", k, BatchItems(fp.uncached, 0)))
          /\ tasks' = [ts EXCEPT ![k].awaiting = Len(requests) + 1,
                                 ![k].uncached = fp.uncached,
                                 ![k].result = fp.result]
          /\ UNCHANGED clusterVars

\* batchGetEmbeddings(list) of task k, from its first pass to its first await
BatchBegin(ts, k, list) ==
  AfterFirstPass(ts, k, FirstPass(list, 1, vectors, dbCache, EmptyMap, <<>>))

\* a call batchGetEmbeddings(list)
BatchGetEmbeddings(list) ==
  BatchBegin(Append(tasks, Task("batch", list)), Len(tasks) + 1, list)

\* a call fullRecluster(processes): with no active descriptor it returns the
\* empty tree and leaves the module state alone, else it groups by name and
\* asks batchGetEmbeddings for one descriptor of every group
FullRecluster(processes) ==
  LET activeProcesses == ActiveProcesses(processes)
      t == [Task("recluster", processes) EXCEPT !.active = activeProcesses]
  IN IF Len(activeProcesses) = 0
     THEN /\ tasks' = Append(tasks, [t EXCEPT !.pc = "done", !.outcome = "fulfilled",
                                              !.tree = createEmptyTree(now)])
          /\ UNCHANGED << storeVars, requests, clusterVars >>
     ELSE BatchBegin(Append(tasks, t), Len(tasks) + 1,
                     UniqueProcesses(ByName(activeProcesses)))

\* line 344: the loop goes on to the batch at the next offset
MoreBatches(uncached, next) == next < Len(uncached)

\* after the embeddings st of batch r are stored, the loop either issues the
\* batch at offset next or ends and the call returns
AfterStore(r, k, st, next) ==
  /\ vectors' = st.vectors
  /\ dbCache' = st.db
  /\ UNCHANGED pendingEmbeddings
  /\ IF MoreBatches(tasks[k].uncached, next)
     THEN /\ requests' = Append([requests EXCEPT ![r].status = "ok"],
                                Request("batch", k, BatchItems(tasks[k].uncached, next)))
          /\ tasks' = [tasks EXCEPT ![k].awaiting = Len(requests) + 1,
                                    ![k].offset = next,
                                    ![k].result = st.result]
          /\ UNCHANGED clusterVars
     ELSE /\ requests' = [requests EXCEPT ![r].status = "ok"]
          /\ BatchReturn(tasks, k, st.result)

\* the provider answers batch r with the vectors of table m
BatchOk(r, m) ==
  /\ requests[r].kind = "batch" /\ requests[r].status = "inflight"
  /\ AfterStore(r, requests[r].task,
                StoreBatch(requests[r].procs, m, 1, vectors, dbCache,
                           tasks[requests[r].task].result),
                tasks[requests[r].task].offset + BatchSize)

\* a batchGetEmbeddings without its catch: the failure of a provider call
\* rejects the call, which is what C4 rules out
BatchFailRejects(r) ==
  /\ requests[r].kind = "batch" /\ requests[r].status = "inflight"
  /\ requests' = [requests EXCEPT ![r].status = "failed"]
  /\ tasks' = [tasks EXCEPT ![requests[r].task] = Rejected(@)]
  /\ UNCHANGED << storeVars, clusterVars >>

\* a failed provider call that never resumes its caller: what C39 rules out
BatchFailHangs(r) ==
  /\ requests[r].kind = "batch" /\ requests[r].status = "inflight"
  /\ requests' = [requests EXCEPT ![r].status = "failed"]
  /\ UNCHANGED << storeVars, tasks, clusterVars >>

\* a failure after which the call returns no embedding at all: what C23 rules
\* out
BatchFailEmpty(r) ==
  LET k == requests[r].task
  IN /\ requests[r].kind = "batch" /\ requests[r].status = "inflight"
     /\ requests' = [requests EXCEPT ![r].status = "failed"]
     /\ BatchReturn(tasks, k, EmptyMap)
     /\ UNCHANGED storeVars

\* the provider call of batch r fails: the catch around the loop ends the
\* loop and the call returns what it has
BatchFail(r) ==
  LET k == requests[r].task
  IN /\ requests[r].kind = "batch" /\ requests[r].status = "inflight"
     /\ requests' = [requests EXCEPT ![r].status = "failed"]
     /\ BatchReturn(tasks, k, tasks[k].result)
     /\ UNCHANGED storeVars

\* ------------------------------------------- the store under concurrent calls

\* bounds of the store specification
MaxCalls == 3
MaxBatchLen == 3

\* descriptors the calls of the store specification are made for: three
\* different keys, and a fourth key whose text is that of the third
StoreProcs == {1, 3, 4}

\* the lists batchGetEmbeddings is called with
RECURSIVE ListsOver(_, _)
ListsOver(S, n) ==
  IF n = 0 THEN {<<>>}
  ELSE LET shorter == ListsOver(S, n - 1)
       IN shorter \cup {Append(l, i) : l \in {x \in shorter : Len(x) = n - 1},
                                          i \in {y \in S : TRUE}}

Ascending(l) == \A a, b \in DOMAIN l : a < b => l[a] < l[b]

BatchLists == {l \in ListsOver(StoreProcs, MaxBatchLen) : Len(l) >= 2 /\ Ascending(l)}

\* rows the database may hold from earlier runs of the program
InitialCaches == {EmptyMap, cacheEmbedding(EmptyMap, TextOf[4], Provider(1, TextOf[4]))}

Init ==
  /\ vectors = EmptyMap
  /\ pendingEmbeddings = EmptyMap
  /\ dbCache \in InitialCaches
  /\ requests = <<>>
  /\ tasks = <<>>
  /\ currentClusters = <<>>
  /\ lastFullRecluster = 0
  /\ singletonCount = 0
  /\ idCounter = 0
  /\ now = 1

CallGet ==
  \E i \in StoreProcs :
    /\ Len(tasks) < MaxCalls
    /\ GetProcessEmbedding(i)
    /\ UNCHANGED clusterVars

CallBatch ==
  \E l \in BatchLists :
    /\ Len(tasks) < MaxCalls
    /\ BatchGetEmbeddings(l)

ReplySingleOk == \E r \in InFlight, m \in Answers : SingleFetchOk(r, m) /\ UNCHANGED clusterVars

ReplySingleFail == \E r \in InFlight : SingleFetchFail(r) /\ UNCHANGED clusterVars

ReplyBatchOk == \E r \in InFlight, m \in Answers : BatchOk(r, m)

ReplyBatchFail == \E r \in InFlight : BatchFail(r)

Next ==
  \/ CallGet
  \/ CallBatch
  \/ ReplySingleOk
  \/ ReplySingleFail
  \/ ReplyBatchOk
  \/ ReplyBatchFail

Spec == Init /\ [][Next]_vars

\* only getProcessEmbedding is called
NextGet ==
  \/ CallGet
  \/ ReplySingleOk
  \/ ReplySingleFail

SpecGet == Init /\ [][NextGet]_vars

\* ------------------------------------------------- reclustering on request

\* bound of the reclustering specification: the calls of fullRecluster
MaxReclusters == 2

\* ProcTable[a..b] as a process list
Window(a, b) == [n \in 1..(b - a + 1) |-> a + n - 1]

\* the process lists fullRecluster is called with: the empty list, the three
\* node descriptors, the first six (three names), the first nine (six names),
\* and the idle descriptor alone
ReclusterLists ==
  {Window(1, n) : n \in {0, 3, 6, 9}} \cup {Window(5, 5)}

CallRecluster ==
  \E l \in ReclusterLists :
    /\ Len(tasks) < MaxReclusters
    /\ FullRecluster(l)

NextRecluster ==
  \/ CallRecluster
  \/ ReplyBatchOk
  \/ ReplyBatchFail

SpecRecluster == Init /\ [][NextRecluster]_vars

\* fullRecluster called again only after the call before it has returned
CallReclusterInTurn ==
  \E l \in ReclusterLists :
    /\ Len(tasks) < MaxReclusters
    /\ \A k \in DOMAIN tasks : tasks[k].pc = "done"
    /\ FullRecluster(l)

NextInTurn ==
  \/ CallReclusterInTurn
  \/ ReplyBatchOk
  \/ ReplyBatchFail

SpecInTurn == Init /\ [][NextInTurn]_vars

\* ------------------------------------------------ incremental assignment

\* createSingletonCluster(process, embedding), id being the generated id
createSingletonCluster(i, embedding, id) ==
  [createEmptyCluster(id, << ProcTable[i].pid >>, embedding) EXCEPT
     !.name = ProcTable[i].name,
     !.description = "Single process: " \o ProcTable[i].name,
     !.aggregateStats =
       [totalCpu |-> ProcTable[i].cpu, totalMem |-> ProcTable[i].mem,
        totalNetIn |-> OrZero(ProcTable[i].netIn),
        totalNetOut |-> OrZero(ProcTable[i].netOut), processCount |-> 1]]

\* null, where findNearestCentroid may return a best centroid
NoNearest == [id |-> NoParent, similarity |-> SimZero]

\* line 408: the centroid replaces the best so far
CloserOf(id, similarity, best) ==
  IF best = NoNearest \/ SimGT(similarity, best.similarity)
  THEN [id |-> id, similarity |-> similarity]
  ELSE best

RECURSIVE NearestFrom(_, _, _, _)
NearestFrom(embedding, centroids, n, best) ==
  IF n > Len(centroids) THEN best
  ELSE NearestFrom(embedding, centroids, n + 1,
                   CloserOf(centroids[n].id,
                            cosineSimilarity(embedding, centroids[n].centroid), best))

\* ProcessVectorStore.findNearestCentroid(embedding, centroids)
findNearestCentroid(embedding, centroids) == NearestFrom(embedding, centroids, 1, NoNearest)

\* cosineSimilarity throws in the loop of findNearestCentroid
NearestThrows(embedding, centroids) ==
  \E n \in DOMAIN centroids : cosineSimilarity(embedding, centroids[n].centroid).throws

\* candidates that include the clusters with an empty centroid: what C33
\* rules out
WithCentroidAll(clusters) == clusters

\* clusters.filter(c => c.centroid.length > 0)
WithCentroid(clusters) == SelectSeq(clusters, LAMBDA c : VecLen(c.centroid) > 0)

\* the number of embeddings the running average is taken over
AverageOver == 10

\* [...allEmbeddings, embedding]: the centroid once for each of the last ten
\* pids of the cluster, then the embedding
AllEmbeddings(centroid, processIds, embedding) ==
  [n \in 1..Min2(AverageOver, Len(processIds)) |-> centroid] \o << embedding >>

\* an assignment that compares with the merge threshold: what C15 rules out
JoinsAtMergeThreshold(nearest) ==
  /\ nearest # NoNearest
  /\ SimGE(nearest.similarity, MERGE_THRESHOLD.num, MERGE_THRESHOLD.den)

\* line 361: nearest && nearest.similarity >= SIMILARITY_THRESHOLD
Joins(nearest) ==
  /\ nearest # NoNearest
  /\ SimGE(nearest.similarity, SIMILARITY_THRESHOLD.num, SIMILARITY_THRESHOLD.den)

\* a join that replaces the members of the cluster by the pid: what C22 rules out
JoinedAlone(cluster, pid, embedding) ==
  [cluster EXCEPT !.processIds = << pid >>, !.centroid = embedding]

\* lines 365-377: the cluster after the pid was assigned to it
Joined(cluster, pid, embedding) ==
  IF pid \in Range(cluster.processIds) THEN cluster
  ELSE [cluster EXCEPT
          !.processIds = Append(@, pid),
          !.centroid = calculateCentroid(
                         AllEmbeddings(cluster.centroid, Append(cluster.processIds, pid),
                                       embedding))]

\* clusters.find(c => c.id === id), as a position
FindCluster(clusters, id) ==
  CHOOSE n \in DOMAIN clusters :
    clusters[n].id = id /\ \A x \in DOMAIN clusters : clusters[x].id = id => n <= x

\* the number of times fullRecluster has replaced currentClusters by a new
\* array: its calls that got past the early return and returned
Publishes ==
  Cardinality({k \in DOMAIN tasks :
                 /\ tasks[k].kind = "recluster" /\ tasks[k].outcome = "fulfilled"
                 /\ tasks[k].active # <<>>})

\* a call assignProcessToCluster(process, clusters) in progress or finished:
\* clusters is the array it was given, with what has been done to its
\* clusters since; epoch tells whether that array is still currentClusters;
\* value is the embedding, cluster and isNew what the call returned
AssignTask(i, clusters) ==
  [kind |-> "assign", procs |-> << i >>, pc |-> "await", awaiting |-> 0,
   outcome |-> "pending", value |-> NoRow, clusters |-> clusters, epoch |-> Publishes,
   cluster |-> createEmptyCluster(NoParent, <<>>, EmptyVec), isNew |-> FALSE]

AssignTasks == {k \in DOMAIN tasks : tasks[k].kind = "assign"}

\* cluster objects are shared by reference: what one call does to the
\* clusters of an array is seen by every suspended call that holds the array
Shared(ts, k, clusters) ==
  [x \in DOMAIN ts |->
     IF x # k /\ ts[x].kind = "assign" /\ ts[x].pc = "await" /\ ts[x].epoch = ts[k].epoch
     THEN [ts[x] EXCEPT !.clusters = clusters]
     ELSE ts[x]]

AssignReturns(t, embedding, cluster, isNew) ==
  [t EXCEPT !.pc = "done", !.outcome = "fulfilled", !.value = embedding,
            !.cluster = cluster, !.isNew = isNew]

\* lines 363-379: the process joins cluster n of the array the call holds
AssignJoin(ts, k, embedding, n, joined) ==
  /\ tasks' = [Shared(ts, k, [ts[k].clusters EXCEPT ![n] = joined]) EXCEPT
                 ![k] = AssignReturns([@ EXCEPT !.clusters[n] = joined],
                                      embedding, joined, FALSE)]
  /\ currentClusters' = IF ts[k].epoch = Publishes
                        THEN [ts[k].clusters EXCEPT ![n] = joined]
                        ELSE currentClusters
  /\ UNCHANGED << lastFullRecluster, singletonCount, idCounter, now >>

AssignJoinAt(ts, k, embedding, n) ==
  AssignJoin(ts, k, embedding, n,
             Joined(ts[k].clusters[n], ProcTable[ts[k].procs[1]].pid, embedding))

\* lines 382-386: a new singleton cluster, which the call returns and stores
\* nowhere
AssignSingleton(ts, k, embedding) ==
  /\ tasks' = [ts EXCEPT ![k] = AssignReturns(@, embedding,
                 createSingletonCluster(ts[k].procs[1], embedding, idCounter + 1), TRUE)]
  /\ singletonCount' = singletonCount + 1
  /\ idCounter' = idCounter + 1
  /\ UNCHANGED << currentClusters, lastFullRecluster, now >>

AssignNearest(ts, k, embedding, nearest) ==
  IF Joins(nearest)
  THEN AssignJoinAt(ts, k, embedding, FindCluster(ts[k].clusters, nearest.id))
  ELSE AssignSingleton(ts, k, embedding)

\* assignProcessToCluster of task k resumes with the embedding of its process
AssignResume(ts, k, embedding) ==
  IF NearestThrows(embedding, WithCentroid(ts[k].clusters))
  THEN /\ tasks' = [ts EXCEPT ![k] = [@ EXCEPT !.pc = "done", !.outcome = "rejected",
                                               !.value = embedding]]
       /\ UNCHANGED clusterVars
  ELSE AssignNearest(ts, k, embedding,
                     findNearestCentroid(embedding, WithCentroid(ts[k].clusters)))

\* a call assignProcessToCluster(process, getCurrentClusters()) up to its
\* first suspension: getProcessEmbedding answers from the in-memory map or
\* the database, or the call awaits the fetch registered for the key, or a
\* new fetch
AssignProcessToCluster(i) ==
  LET key == KeyOf[i]
      cached == getCachedEmbedding(dbCache, TextOf[i])
      k == Len(tasks) + 1
      ts == Append(tasks, AssignTask(i, currentClusters))
      r == Len(requests) + 1
  IN IF key \in DOMAIN vectors
     THEN /\ AssignResume(ts, k, vectors[key].embedding)
          /\ UNCHANGED << storeVars, requests >>
     ELSE IF HasPending(pendingEmbeddings, key)
     THEN /\ tasks' = IF requests[pendingEmbeddings[key]].status = "inflight"
                      THEN [ts EXCEPT ![k].awaiting = pendingEmbeddings[key]]
                      ELSE [ts EXCEPT ![k] = Rejected(@)]
          /\ UNCHANGED << storeVars, requests, clusterVars >>
     ELSE IF cached # NoRow
     THEN /\ vectors' = MapSet(vectors, key, ProcessVector(i, cached))
          /\ AssignResume(ts, k, cached)
          /\ UNCHANGED << pendingEmbeddings, dbCache, requests >>
     ELSE /\ requests' = Append(requests, Request("single", k, << i >>))
          /\ pendingEmbeddings' = MapSet(pendingEmbeddings, key, r)
          /\ tasks' = [ts EXCEPT ![k].awaiting = r]
          /\ UNCHANGED << vectors, dbCache, clusterVars >>

\* getCurrentClusters()
getCurrentClusters == currentClusters

\* --------------------------------------------------------- trigger policy

\* the singleton debt at which a recluster is due (5 in the source), scaled
\* down so that a few assignments reach it
SingletonLimit == 2
ReclusterCeiling == 60000

\* changeRatio > 0.2, the ratio being change / base
ChangeLimit == [num |-> 1, den |-> 5]

Max2(a, b) == IF a > b THEN a ELSE b

\* new Set(currentClusters.flatMap(c => c.processIds)).size
PidCount(clusters) ==
  Cardinality(UNION {Range(clusters[n].processIds) : n \in DOMAIN clusters})

\* line 411: changeRatio > 0.2 for a list of newPidCount processes
ChangedBy(newPidCount, currentPidCount) ==
  Abs(newPidCount - currentPidCount) * ChangeLimit.den
    > ChangeLimit.num * Max2(currentPidCount, 1)

\* needsFullRecluster(processes)
needsFullRecluster(processes) ==
  \/ lastFullRecluster = 0
  \/ singletonCount >= SingletonLimit
  \/ now - lastFullRecluster > ReclusterCeiling
  \/ ChangedBy(Len(processes), PidCount(currentClusters))

\* a call needsFullRecluster(processes) and what it returned
NeedsTask(processes) ==
  [kind |-> "needs", procs |-> processes, pc |-> "done", outcome |-> "fulfilled",
   needed |-> needsFullRecluster(processes), at |-> now]

NeedsFullRecluster(processes) ==
  /\ tasks' = Append(tasks, NeedsTask(processes))
  /\ UNCHANGED << storeVars, requests, clusterVars >>

\* the fetch a call of assignProcessToCluster started succeeds: database,
\* in-memory map, the registration is deleted, and the call resumes
AssignFetchOk(r, m) ==
  /\ requests[r].kind = "single" /\ requests[r].status = "inflight"
  /\ tasks[requests[r].task].kind = "assign"
  /\ dbCache' = cacheEmbedding(dbCache, TextOf[requests[r].procs[1]],
                               Provider(m, TextOf[requests[r].procs[1]]))
  /\ vectors' = MapSet(vectors, KeyOf[requests[r].procs[1]],
                       ProcessVector(requests[r].procs[1],
                                     Provider(m, TextOf[requests[r].procs[1]])))
  /\ pendingEmbeddings' = MapDelete(pendingEmbeddings, KeyOf[requests[r].procs[1]])
  /\ requests' = [requests EXCEPT ![r].status = "ok"]
  /\ AssignResume(tasks, requests[r].task, Provider(m, TextOf[requests[r].procs[1]]))

\* the fetch fails: the call rejects, and the registration stays
AssignFetchFail(r) ==
  /\ requests[r].kind = "single" /\ requests[r].status = "inflight"
  /\ tasks[requests[r].task].kind = "assign"
  /\ requests' = [requests EXCEPT ![r].status = "failed"]
  /\ tasks' = [tasks EXCEPT ![requests[r].task] = Rejected(@)]
  /\ UNCHANGED << storeVars, clusterVars >>

\* ------------------------------------------ the engine with a warm database

\* bound of the engine specification: the calls made
MaxEngineCalls == 3

\* Date.now() when the program starts, in milliseconds: any time later than
\* the ceiling after the epoch gives the same comparisons
StartTime == 1000000

\* embeddings of five dimensions at the thresholds: Safari at exactly 0.8
\* from node and zsh just below it (0.7809), "node worker.js" at exactly 0.75
\* from node, Spotify at exactly 0.8 from Slack
AtThresholds ==
  << <<4, 0, 0, 0, 0>>, <<4, 0, 0, 0, 0>>, <<3, 2, 1, 1, 1>>, <<4, 3, 0, 0, 0>>,
     <<0, 0, 0, 0, 1>>, <<5, 4, 0, 0, 0>>, <<0, 0, 1, 0, 0>>, <<0, 0, 4, 3, 0>>,
     <<0, 0, 0, 1, 0>>, <<0, 0, 0, 0, 1>> >>

\* every text with the same embedding
AllAlike == [i \in ProcIds |-> <<1, 0>>] \o <<>>

\* node and Safari alike, zsh and Slack alike and close to them (0.98),
\* Spotify at exactly 0.8 from node and Safari and further from zsh and Slack
TwoPairsAndOne ==
  << <<1, 0, 0>>, <<1, 0, 0>>, <<1, 0, 0>>, <<1, 0, 0>>, <<0, 0, 1>>,
     <<5, 1, 0>>, <<5, 1, 0>>, <<4, -3, 0>>, <<0, 0, 1>>, <<0, 0, -1>> >>

\* what the provider answered in earlier runs of the program
WarmTables == << AnswerTables[1], AnswerTables[2], AtThresholds, AllAlike, TwoPairsAndOne >>

\* the database after every text of the table was embedded by table m
RECURSIVE WarmFrom(_, _, _)
WarmFrom(m, i, db) ==
  IF i > Len(ProcTable) THEN db
  ELSE WarmFrom(m, i + 1,
                cacheEmbedding(db, TextOf[i], Emb(WarmTables[m][FirstWithText(TextOf[i])])))

WarmCaches == {WarmFrom(m, 1, EmptyMap) : m \in DOMAIN WarmTables}

EngineInit ==
  /\ vectors = EmptyMap
  /\ pendingEmbeddings = EmptyMap
  /\ dbCache \in WarmCaches
  /\ requests = <<>>
  /\ tasks = <<>>
  /\ currentClusters = <<>>
  /\ lastFullRecluster = 0
  /\ singletonCount = 0
  /\ idCounter = 0
  /\ now = StartTime

\* the process lists of the engine specification: none, the idle descriptor,
\* two node pids, the two with Safari, node with Safari and zsh, and the whole
\* table
EngineLists == {<<>>, <<5>>, <<1, 2>>, <<1, 2, 4>>, <<1, 4, 6>>, Window(1, 10)}

\* the descriptors assigned: "node worker.js", the idle mdworker, zsh
EngineProcs == {3, 5, 6}

EngineRecluster ==
  \E l \in EngineLists :
    /\ Len(tasks) < MaxEngineCalls
    /\ FullRecluster(l)

EngineAssign ==
  \E i \in EngineProcs :
    /\ Len(tasks) < MaxEngineCalls
    /\ AssignProcessToCluster(i)

NextEngine ==
  \/ EngineRecluster
  \/ EngineAssign

SpecEngine == EngineInit /\ [][NextEngine]_vars

\* ------------------------------------------------- the trigger policy asked

\* bounds of the trigger specification: the calls made, and the times the
\* clock is read ReclusterCeiling later
MaxTriggerCalls == 5
MaxTicks == 2

TriggerInit ==
  /\ EngineInit
  /\ dbCache = WarmFrom(1, 1, EmptyMap)

\* the lists fullRecluster is called with: none, six descriptors of which
\* five are active, and Safari with the idle mdworker
TriggerLists == {<<>>, Window(1, 6), <<4, 5>>}

\* the lists needsFullRecluster is asked about: none, six and seven
\* processes, and Safari with the idle mdworker
NeedsLists == {<<>>, Window(1, 6), Window(1, 7), <<4, 5>>}

\* nothing is called after needsFullRecluster has answered
Asked == tasks # <<>> /\ tasks[Len(tasks)].kind = "needs"

TriggerRecluster ==
  \E l \in TriggerLists :
    /\ Len(tasks) < MaxTriggerCalls
    /\ ~Asked
    /\ FullRecluster(l)

TriggerAssign ==
  \E i \in {3, 5} :
    /\ Len(tasks) < MaxTriggerCalls
    /\ ~Asked
    /\ AssignProcessToCluster(i)

TriggerNeeds ==
  \E l \in NeedsLists :
    /\ Len(tasks) < MaxTriggerCalls
    /\ ~Asked
    /\ NeedsFullRecluster(l)

\* Date.now() is ReclusterCeiling later
Tick ==
  /\ now < StartTime + MaxTicks * ReclusterCeiling
  /\ ~Asked
  /\ now' = now + ReclusterCeiling
  /\ UNCHANGED << storeVars, requests, tasks, currentClusters, lastFullRecluster,
                  singletonCount, idCounter >>

NextTrigger ==
  \/ TriggerRecluster
  \/ TriggerAssign
  \/ TriggerNeeds
  \/ Tick

SpecTrigger == TriggerInit /\ [][NextTrigger]_vars

\* ----------------------------------- assignments while reclusters are running

\* bound of the interleaving specification: the calls made
MaxInterleaved == 3

InterleaveInit ==
  /\ Init
  /\ dbCache = EmptyMap

\* the lists fullRecluster is called with: two node pids and Safari, and the
\* same with zsh
InterleaveLists == {<<1, 2, 4>>, <<1, 2, 4, 6>>}

\* the descriptors assigned: "node worker.js" and Slack
InterleaveProcs == {3, 7}

InterleaveRecluster ==
  \E l \in InterleaveLists :
    /\ Len(tasks) < MaxInterleaved
    /\ FullRecluster(l)

\* no second call is made for a key while its fetch is in flight
InterleaveAssign ==
  \E i \in InterleaveProcs :
    /\ Len(tasks) < MaxInterleaved
    /\ HasPending(pendingEmbeddings, KeyOf[i])
         => requests[pendingEmbeddings[KeyOf[i]]].status # "inflight"
    /\ AssignProcessToCluster(i)

ReplyAssignOk == \E r \in InFlight, m \in Answers : AssignFetchOk(r, m)

ReplyAssignFail == \E r \in InFlight : AssignFetchFail(r)

NextInterleave ==
  \/ InterleaveRecluster
  \/ InterleaveAssign
  \/ ReplyAssignOk
  \/ ReplyAssignFail
  \/ ReplyBatchOk
  \/ ReplyBatchFail

SpecInterleave == InterleaveInit /\ [][NextInterleave]_vars

\* ------------------------------------------------------- statistics refreshed

\* the loop of refreshClusterStats over the clusters
refreshClusterStats(clusters, processes) ==
  [n \in DOMAIN clusters |-> updateClusterStats(clusters[n], processes)] \o <<>>

\* a call refreshClusterStats(processes), which returns nothing
RefreshTask(processes) ==
  [kind |-> "refresh", procs |-> processes, pc |-> "done", outcome |-> "fulfilled"]

\* the cluster objects are updated in place: a suspended assignProcessToCluster
\* that was given the current array sees them
Holding(ts, clusters) ==
  [x \in DOMAIN ts |->
     IF ts[x].kind = "assign" /\ ts[x].pc = "await" /\ ts[x].epoch = Publishes
     THEN [ts[x] EXCEPT !.clusters = clusters]
     ELSE ts[x]]

Refreshed(processes, clusters) ==
  /\ currentClusters' = clusters
  /\ tasks' = Append(Holding(tasks, clusters), RefreshTask(processes))
  /\ UNCHANGED << storeVars, requests, lastFullRecluster, singletonCount, idCounter, now >>

\* a call refreshClusterStats(processes)
RefreshClusterStats(processes) ==
  Refreshed(processes, refreshClusterStats(currentClusters, processes))

\* bound of the statistics specification: the calls made
MaxStatsCalls == 3

\* the database holds the embeddings of the second answer table or those at
\* the thresholds
StatsInit ==
  /\ EngineInit
  /\ dbCache \in {WarmFrom(2, 1, EmptyMap), WarmFrom(3, 1, EmptyMap)}

\* the lists fullRecluster is called with
StatsLists == {<<1, 2, 4>>, <<1, 2, 3, 4, 6>>, Window(1, 10)}

\* the lists refreshClusterStats is called with: none, one node pid, the list
\* of a recluster, a node pid twice with Slack, and the whole table
RefreshLists == {<<>>, <<1>>, <<1, 2, 4>>, <<1, 1, 7>>, Window(1, 10)}

StatsRecluster ==
  \E l \in StatsLists :
    /\ Len(tasks) < MaxStatsCalls
    /\ FullRecluster(l)

StatsAssign ==
  \E i \in {3, 6} :
    /\ Len(tasks) < MaxStatsCalls
    /\ AssignProcessToCluster(i)

StatsRefresh ==
  \E l \in RefreshLists :
    /\ Len(tasks) < MaxStatsCalls
    /\ RefreshClusterStats(l)

NextStats ==
  \/ StatsRecluster
  \/ StatsAssign
  \/ StatsRefresh

SpecStats == StatsInit /\ [][NextStats]_vars

\* ------------------------------------------------------------ names given

\* bound of the naming specification: the calls made
MaxNamingCalls == 2

\* the names of the processes of one cluster, in the order of the process
\* list: one name, one name several times, names with and without a common
\* prefix of three characters, one name for most of the processes, and names
\* that match none, one or several of the keyword sets
NameLists ==
  { <<"node">>, <<"zsh">>, <<"node", "node", "node">>,
    <<"nodejs", "node">>, <<"Safari", "Safari Networking">>,
    <<"abcd", "abce">>, <<"abd", "abe">>,
    <<"node", "Safari">>, <<"node", "node", "node", "zsh">>,
    <<"Spotify", "Slack">>, <<"Spotify", "zsh">>,
    <<"ssh-agent", "zsh">>, <<"mdworker", "zsh">>,
    <<"GitHub Desktop", "zsh">>, <<"Google Chrome Helper", "zsh">> }

\* a call inferCategory(names) and what it returned
InferTask(names) ==
  [kind |-> "infer", names |-> names, pc |-> "done", outcome |-> "fulfilled",
   category |-> inferCategory(names)]

InferCategory(names) ==
  /\ tasks' = Append(tasks, InferTask(names))
  /\ UNCHANGED << storeVars, requests, clusterVars >>

\* the body of the loop of generateClusterNames for a cluster whose
\* processes have the given names
NamingTask(names) ==
  [kind |-> "naming", names |-> names, pc |-> "done", outcome |-> "fulfilled",
   cluster |-> NamedBy(createEmptyCluster(NoParent, <<>>, EmptyVec),
                       ToString(Len(names)), Unique(names))]

GenerateClusterName(names) ==
  /\ tasks' = Append(tasks, NamingTask(names))
  /\ UNCHANGED << storeVars, requests, clusterVars >>

NamingInfer ==
  \E names \in NameLists :
    /\ Len(tasks) < MaxNamingCalls
    /\ InferCategory(names)

NamingName ==
  \E names \in NameLists :
    /\ Len(tasks) < MaxNamingCalls
    /\ GenerateClusterName(names)

NextNaming ==
  \/ NamingInfer
  \/ NamingName

SpecNaming == InterleaveInit /\ [][NextNaming]_vars

\* ------------------------------------------------- similarities computed

\* bound of the similarity specification: the calls made
MaxCosineCalls == 4

\* what the provider answered in earlier runs for the texts of the table: an
\* empty embedding for "node server.js", embeddings of two dimensions, one of
\* them all zeros (mdworker), and embeddings of three dimensions (Slack on)
Malformed ==
  << <<>>, <<>>, <<1, 0>>, <<1, 0>>, <<0, 0>>,
     <<1, 1>>, <<1, 0, 0>>, <<0, 0, 0>>, <<0, 1>>, <<3, 4>> >>

RECURSIVE WarmWith(_, _, _)
WarmWith(table, i, db) ==
  IF i > Len(ProcTable) THEN db
  ELSE WarmWith(table, i + 1,
                cacheEmbedding(db, TextOf[i], Emb(table[FirstWithText(TextOf[i])])))

CosineInit ==
  /\ vectors = EmptyMap
  /\ pendingEmbeddings = EmptyMap
  /\ dbCache = WarmWith(Malformed, 1, EmptyMap)
  /\ requests = <<>>
  /\ tasks = <<>>
  /\ currentClusters = <<>>
  /\ lastFullRecluster = 0
  /\ singletonCount = 0
  /\ idCounter = 0
  /\ now = StartTime

\* the vectors cosineSimilarity is called with
CosineVectors == {Emb(Malformed[i]) : i \in {1, 5, 6, 7}}

\* a call cosineSimilarity(a, b) and how it ended
CosineTask(a, b) ==
  [kind |-> "cosine", a |-> a, b |-> b, pc |-> "done",
   outcome |-> IF cosineSimilarity(a, b).throws THEN "rejected" ELSE "fulfilled",
   similarity |-> cosineSimilarity(a, b)]

CosineSimilarity(a, b) ==
  /\ tasks' = Append(tasks, CosineTask(a, b))
  /\ UNCHANGED << storeVars, requests, clusterVars >>

\* the engine is called after the similarities were asked for
CosineCall ==
  \E a, b \in CosineVectors :
    /\ Len(tasks) < MaxCosineCalls
    /\ \A k \in DOMAIN tasks : tasks[k].kind = "cosine"
    /\ CosineSimilarity(a, b)

\* the lists reclustered: the node pids (an empty embedding), Safari, both
CosineRecluster ==
  \E l \in {<<1, 2>>, <<4>>, <<1, 2, 4>>} :
    /\ Len(tasks) < MaxCosineCalls
    /\ FullRecluster(l)

\* the descriptors assigned: embeddings that are empty, of two dimensions,
\* all zeros, and of three dimensions
CosineAssign ==
  \E i \in {1, 3, 5, 7} :
    /\ Len(tasks) < MaxCosineCalls
    /\ AssignProcessToCluster(i)

NextCosine ==
  \/ CosineCall
  \/ CosineRecluster
  \/ CosineAssign

SpecCosine == CosineInit /\ [][NextCosine]_vars

\* ------------------------------------------------ the embedding cache used

\* bound of the cache specification: the calls made
MaxCacheCalls == 3

\* the texts of processes named Aa and BB with one command, and of zsh
CacheTexts == {"Aa: run", "BB: run", "zsh: -zsh"}

CacheVectors == {<<1, 0>>, <<0, -1>>, <<>>}

\* the components an embedding of the cache specification may have
Components == -1 .. 1

\* JSON.stringify(embedding): the decimal text of every component
JsonStringify(embedding) == [n \in DOMAIN embedding |-> ToString(embedding[n])] \o <<>>

\* JSON.parse(row.embedding)
JsonParse(json) ==
  [n \in DOMAIN json |-> CHOOSE x \in Components : ToString(x) = json[n]] \o <<>>

\* cacheEmbedding(text, embedding) on the table db: INSERT OR REPLACE of the
\* row (hashText(text), JSON.stringify(embedding))
InsertOrReplace(db, text, embedding) ==
  MapSet(db, hashText(text), JsonStringify(embedding))

\* getCachedEmbedding(text) on the table db: the parsed row, null for none
SelectEmbedding(db, text) ==
  IF hashText(text) \in DOMAIN db THEN Emb(JsonParse(db[hashText(text)])) ELSE NoRow

\* a call cacheEmbedding(text, embedding); same tells whether it left the
\* table as it was
CacheTask(text, embedding) ==
  [kind |-> "cache", text |-> text, embedding |-> Emb(embedding), pc |-> "done",
   outcome |-> "fulfilled",
   same |-> InsertOrReplace(dbCache, text, embedding) = dbCache]

CacheEmbedding(text, embedding) ==
  /\ dbCache' = InsertOrReplace(dbCache, text, embedding)
  /\ tasks' = Append(tasks, CacheTask(text, embedding))
  /\ UNCHANGED << vectors, pendingEmbeddings, requests, clusterVars >>

\* a call getCachedEmbedding(text) and what it returned
CachedTask(text) ==
  [kind |-> "cached", text |-> text, pc |-> "done", outcome |-> "fulfilled",
   value |-> SelectEmbedding(dbCache, text)]

GetCachedEmbedding(text) ==
  /\ tasks' = Append(tasks, CachedTask(text))
  /\ UNCHANGED << storeVars, requests, clusterVars >>

CacheWrite ==
  \E text \in CacheTexts, embedding \in CacheVectors :
    /\ Len(tasks) < MaxCacheCalls
    /\ CacheEmbedding(text, embedding)

CacheRead ==
  \E text \in CacheTexts :
    /\ Len(tasks) < MaxCacheCalls
    /\ GetCachedEmbedding(text)

NextCache ==
  \/ CacheWrite
  \/ CacheRead

SpecCache == InterleaveInit /\ [][NextCache]_vars

\* ------------------------------------------- reclusters that are answered

\* bound of the specification of answered reclusters: the calls made
MaxAnswered == 2

\* the lists reclustered: no descriptor, and nine descriptors
AnsweredLists == {<<>>, Window(1, 9)}

AnsweredRecluster ==
  \E l \in AnsweredLists :
    /\ Len(tasks) < MaxAnswered
    /\ FullRecluster(l)

NextAnswered ==
  \/ AnsweredRecluster
  \/ ReplyBatchOk
  \/ ReplyBatchFail

\* a step in which the provider answers a call in flight, well or not
AnsweredStep == \E r \in InFlight : requests'[r].status # "inflight"

\* fetch settles every call in the end: weak fairness of the answering step,
\* which is enabled exactly while a call is in flight
SpecAnswered ==
  /\ Init
  /\ [][NextAnswered]_vars
  /\ ([]<>(InFlight = {}) \/ []<><<AnsweredStep>>_vars)

\* ------------------------------------------------------------ claims: store

GetTasks == {k \in DOMAIN tasks : tasks[k].kind = "get"}
BatchTasks == {k \in DOMAIN tasks : tasks[k].kind = "batch"}
DoneTasks == {k \in DOMAIN tasks : tasks[k].pc = "done"}

TaskKey(k) == KeyOf[tasks[k].procs[1]]

\* the calls of getProcessEmbedding made so far for a key
CallersOf(key) == {k \in GetTasks : TaskKey(k) = key}

\* the provider calls issued so far that carry the key
FetchesOf(key) == {r \in DOMAIN requests : key \in RequestKeys(r)}

SameResult(a, b) ==
  tasks[a].outcome = tasks[b].outcome /\ tasks[a].value = tasks[b].value

\* C1: when only getProcessEmbedding is called, the calls made for one key
\* that the database did not hold cause exactly one provider call, every call
\* that suspended waits on that one call, and all the calls that have
\* returned got the same outcome and the same vector.
C1Coalescing ==
  \A i \in ProcIds :
    LET key == KeyOf[i]
        callers == CallersOf(key)
        fetches == FetchesOf(key)
    IN callers # {} =>
         /\ \/ Cardinality(fetches) = 1
            \/ /\ fetches = {}
               /\ key \in DOMAIN vectors
               /\ getCachedEmbedding(dbCache, TextOf[i]) = vectors[key].embedding
         /\ \A a \in callers : tasks[a].awaiting # 0 => fetches = {tasks[a].awaiting}
         /\ \A a, b \in callers \cap DoneTasks : SameResult(a, b)

\* three calls for one key shared one fetch and have all returned its vector
C1Witness ==
  \E r \in DOMAIN requests :
    /\ requests[r].status = "ok"
    /\ Cardinality({k \in GetTasks : tasks[k].awaiting = r /\ tasks[k].outcome = "fulfilled"}) = 3

\* C2: no two provider calls that carry the same key are in flight at once.
C2OneFetchPerKey ==
  \A r1, r2 \in InFlight : r1 # r2 => RequestKeys(r1) \cap RequestKeys(r2) = {}

\* a fetch of getProcessEmbedding and a batch of batchGetEmbeddings are in
\* flight for one key
C2Witness ==
  \E r1, r2 \in InFlight :
    /\ requests[r1].kind = "single"
    /\ requests[r2].kind = "batch"
    /\ RequestKeys(r1) \cap RequestKeys(r2) # {}

NewRequests == (DOMAIN requests') \ (DOMAIN requests)

IsCallStep == Len(tasks') > Len(tasks)

Missed(i) == KeyOf[i] \notin DOMAIN vectors /\ getCachedEmbedding(dbCache, TextOf[i]) = NoRow

RequestsOf(k) == {r \in DOMAIN requests : requests[r].kind = "batch" /\ requests[r].task = k}

\* C4: a batchGetEmbeddings call that has returned was fulfilled, not rejected,
\* also when one of its provider calls failed; its result holds every key of
\* its list that was cached and every key of its provider calls that
\* succeeded, and these keys are in the in-memory map and the database.
C4PartialSuccess ==
  \A k \in BatchTasks \cap DoneTasks :
    /\ tasks[k].outcome = "fulfilled"
    /\ \A i \in Range(tasks[k].procs) :
         i \notin Range(tasks[k].uncached) => KeyOf[i] \in DOMAIN tasks[k].result
    /\ \A r \in RequestsOf(k) : requests[r].status = "ok" =>
         RequestKeys(r) \subseteq DOMAIN tasks[k].result
    /\ \A i \in Range(tasks[k].procs) : KeyOf[i] \in DOMAIN tasks[k].result =>
         /\ KeyOf[i] \in DOMAIN vectors
         /\ getCachedEmbedding(dbCache, TextOf[i]) # NoRow

\* a batch call returned after its second provider call failed, with the keys
\* of the first in its result
C4Witness ==
  \E k \in BatchTasks \cap DoneTasks :
    \E r1, r2 \in RequestsOf(k) :
      /\ r1 < r2
      /\ requests[r1].status = "ok"
      /\ requests[r2].status = "failed"
      /\ RequestKeys(r1) \subseteq DOMAIN tasks[k].result

\* C6: a batchGetEmbeddings call that has returned asked the provider for
\* every key it found uncached, whichever of its provider calls failed.
C6AllBatchesFetched ==
  \A k \in BatchTasks \cap DoneTasks :
    \A i \in Range(tasks[k].uncached) :
      \E r \in RequestsOf(k) : i \in Range(requests[r].procs)

\* a batch call has returned after its first provider call failed, and a key
\* it found uncached was in no provider call
C6Witness ==
  \E k \in BatchTasks \cap DoneTasks :
    /\ \E r \in RequestsOf(k) : requests[r].status = "failed"
    /\ \E i \in Range(tasks[k].uncached) :
         \A r \in RequestsOf(k) : i \notin Range(requests[r].procs)

\* ------------------------------------------------------ claims: reclustering

ReclusterTasks == {k \in DOMAIN tasks : tasks[k].kind = "recluster"}

\* the calls of fullRecluster that have returned a tree
Returned == {k \in ReclusterTasks : tasks[k].outcome = "fulfilled"}

\* the non-root clusters of the tree call k returned
TreeClusters(k) == Tail(tasks[k].tree.flatList)

MemberPids(k) == UNION {Range(TreeClusters(k)[n].processIds) : n \in DOMAIN TreeClusters(k)}

ActivePids(k) == {ProcTable[i].pid : i \in Range(tasks[k].active)}

\* every provider call made for call k succeeded
AllFetched(k) == \A r \in RequestsOf(k) : requests[r].status = "ok"

InOneCluster(k, pids) ==
  \E n \in DOMAIN TreeClusters(k) : pids \subseteq Range(TreeClusters(k)[n].processIds)

\* C5: a fullRecluster that found three keys uncached and had a provider call
\* fail still has at least two of the three in the in-memory map and the
\* database, with their descriptors' pids in the clusters it returned.
C5OthersStillUsed ==
  \A k \in Returned :
    (Len(tasks[k].uncached) = 3 /\ \E r \in RequestsOf(k) : requests[r].status = "failed")
      => Cardinality({i \in Range(tasks[k].uncached) :
                        /\ KeyOf[i] \in DOMAIN vectors
                        /\ getCachedEmbedding(dbCache, TextOf[i]) # NoRow
                        /\ ProcTable[i].pid \in MemberPids(k)}) >= 2

\* a fullRecluster found three keys uncached, a provider call failed, and
\* none of the three descriptors is in a cluster of the returned tree
C5Witness ==
  \E k \in Returned :
    /\ Len(tasks[k].uncached) = 3
    /\ \E r \in RequestsOf(k) : requests[r].status = "failed"
    /\ \A i \in Range(tasks[k].uncached) : ProcTable[i].pid \notin MemberPids(k)

\* the number of times the provider calls of call k carry the key
TimesRequested(k, key) ==
  Cardinality({<<r, j>> \in (DOMAIN requests) \X (1..Len(ProcTable)) :
                 /\ r \in RequestsOf(k)
                 /\ j \in DOMAIN requests[r].procs
                 /\ KeyOf[requests[r].procs[j]] = key})

\* C7: in a fullRecluster whose provider calls all succeeded, active
\* descriptors with the same name and command have their text requested at
\* most once, and their pids are members of one cluster of the returned tree.
C7OneFetchOneCluster ==
  \A k \in Returned : AllFetched(k) =>
    \A i, j \in Range(tasks[k].active) : KeyOf[i] = KeyOf[j] =>
      /\ TimesRequested(k, KeyOf[i]) <= 1
      /\ InOneCluster(k, {ProcTable[i].pid, ProcTable[j].pid})

\* the two "node server.js" descriptors were active, every provider call
\* succeeded, and neither pid is in a cluster of the returned tree
C7Witness ==
  \E k \in Returned :
    /\ AllFetched(k) /\ RequestsOf(k) # {}
    /\ {1, 2} \subseteq Range(tasks[k].active)
    /\ KeyOf[1] = KeyOf[2]
    /\ {ProcTable[1].pid, ProcTable[2].pid} \cap MemberPids(k) = {}

\* the descriptors i and j are in one of the groups
SameGroup(groups, i, j) ==
  \E g \in Range(groups) : i \in Range(g.procs) /\ j \in Range(g.procs)

SameName(i, j) == ProcTable[i].name = ProcTable[j].name

SameNameAndCommand(i, j) == SameName(i, j) /\ ProcTable[i].command = ProcTable[j].command

\* the first descriptor of the list that has the name of i
FirstWithName(list, i) ==
  list[CHOOSE n \in DOMAIN list :
         /\ SameName(list[n], i)
         /\ \A m \in 1..(n - 1) : ~SameName(list[m], i)]

\* the groups are the classes of the relation Same on the descriptors
GroupedBy(groups, active, Same(_, _)) ==
  \A i, j \in Range(active) : SameGroup(groups, i, j) <=> Same(i, j)

NoDuplicates(seq) == \A a, b \in DOMAIN seq : a # b => seq[a] # seq[b]

\* C9: in every tree fullRecluster returned, no pid is a member of two
\* non-root clusters and none is listed twice in one cluster.
C9Disjoint ==
  \A k \in Returned :
    /\ \A n \in DOMAIN TreeClusters(k) : NoDuplicates(TreeClusters(k)[n].processIds)
    /\ \A a, b \in DOMAIN TreeClusters(k) : a # b =>
         Range(TreeClusters(k)[a].processIds) \cap Range(TreeClusters(k)[b].processIds) = {}

\* a returned tree has several clusters, one of them merged from groups of
\* different names
C9Witness ==
  \E k \in Returned :
    /\ Len(TreeClusters(k)) >= 3
    /\ \E n \in DOMAIN TreeClusters(k) : \E i, j \in Range(tasks[k].active) :
         /\ ~SameName(i, j)
         /\ {ProcTable[i].pid, ProcTable[j].pid} \subseteq Range(TreeClusters(k)[n].processIds)

\* C10: the clusters of a tree fullRecluster returned after all its provider
\* calls succeeded hold, between them, exactly the pids of the active
\* descriptors.
C10CoversActive ==
  \A k \in Returned : AllFetched(k) => MemberPids(k) = ActivePids(k)

\* every provider call succeeded, the active descriptors have more than five
\* names, and the returned tree has no cluster at all
C10Witness ==
  \E k \in Returned :
    /\ AllFetched(k) /\ RequestsOf(k) # {}
    /\ ActivePids(k) # {}
    /\ TreeClusters(k) = <<>>

\* ---------------------------------------------------------- claims: engine

\* the items call k gave to agglomerativeClusterWithPids
ItemsOf(k) == ProcessEmbeddings(ByName(tasks[k].active), 1, tasks[k].result)

\* the cluster lists at the start of every round of the merge loop
RECURSIVE Rounds(_)
Rounds(clusters) ==
  LET bestPair == BestPair(clusters).pair
  IN << clusters >> \o
       (IF Len(clusters) <= 1 \/ bestPair = <<>> THEN <<>>
        ELSE IF ~WithinSizeLimit(clusters[bestPair[1]], clusters[bestPair[2]]) THEN <<>>
        ELSE Rounds(Append(Without(clusters, bestPair[1], bestPair[2]),
                           MergePair(clusters, bestPair[1], bestPair[2], 0))))

RoundsOf(k) == Rounds(StartClusters(ItemsOf(k), 0))

PairsOf(clusters) == {pr \in (DOMAIN clusters) \X (DOMAIN clusters) : pr[1] < pr[2]}

SimOf(clusters, pr) == cosineSimilarity(clusters[pr[1]].centroid, clusters[pr[2]].centroid)

ReachesMerge(s) == SimGE(s, MERGE_THRESHOLD.num, MERGE_THRESHOLD.den)

\* the similarity is the merge threshold exactly
AtMerge(s) ==
  /\ ReachesMerge(s)
  /\ ~FracLess(MERGE_THRESHOLD.num * MERGE_THRESHOLD.num,
               MERGE_THRESHOLD.den * MERGE_THRESHOLD.den, s.dot * s.dot, s.ma * s.mb)

\* in one round: a pair is picked whenever some pair reaches the threshold,
\* the picked pair reaches it, and no pair is more similar than the picked one
RoundAtThreshold(clusters, bestPair) ==
  /\ (\E pr \in PairsOf(clusters) : ReachesMerge(SimOf(clusters, pr))) => bestPair # <<>>
  /\ bestPair # <<>> =>
       /\ ReachesMerge(SimOf(clusters, bestPair))
       /\ \A pr \in PairsOf(clusters) :
            ~SimGT(SimOf(clusters, pr), SimOf(clusters, bestPair))

\* the returned clusters are clusters the last round was left with
FromLastRound(k, rounds) ==
  \A n \in DOMAIN TreeClusters(k) :
    \E x \in DOMAIN rounds[Len(rounds)] :
      rounds[Len(rounds)][x].processIds = TreeClusters(k)[n].processIds

\* C11 (as amended): in every round of the merge of a fullRecluster the pair
\* that is merged is a most similar pair and its similarity is at least the
\* merge threshold 0.8, a pair is picked whenever some pair is at the
\* threshold or above (exactly 0.8 included), and no pair below the threshold
\* is merged directly; with two text groups only, fullRecluster returns one
\* cluster if their similarity is 0.8 or more and two if it is below.
C11MergesBestPairFromThreshold ==
  \A k \in Returned :
    LET rounds == RoundsOf(k)
        items == ItemsOf(k)
    IN /\ \A n \in DOMAIN rounds :
            Len(rounds[n]) > 1 =>
              RoundAtThreshold(rounds[n], BestPair(rounds[n]).pair)
       /\ items # <<>> => FromLastRound(k, rounds)
       /\ Len(items) = 2 =>
            Len(TreeClusters(k)) =
              IF ReachesMerge(cosineSimilarity(items[1].embedding, items[2].embedding))
              THEN 1 ELSE 2

\* C11 (as stated): any two text groups of a fullRecluster whose embeddings
\* have similarity exactly 0.8 end in one cluster.
C11MergedAtThreshold ==
  \A k \in Returned :
    \A a, b \in DOMAIN ItemsOf(k) :
      (a < b /\ AtMerge(cosineSimilarity(ItemsOf(k)[a].embedding, ItemsOf(k)[b].embedding)))
        => InOneCluster(k, Range(ItemsOf(k)[a].allPids) \cup Range(ItemsOf(k)[b].allPids))

\* a fullRecluster of two text groups at exactly 0.8 returned one cluster, and
\* one of three groups left a pair at exactly 0.8 in different clusters
C11Witness ==
  /\ \E k \in Returned :
       /\ Len(ItemsOf(k)) = 2
       /\ AtMerge(cosineSimilarity(ItemsOf(k)[1].embedding, ItemsOf(k)[2].embedding))
       /\ Len(TreeClusters(k)) = 1
  /\ \E k \in Returned :
       /\ Len(ItemsOf(k)) = 3
       /\ Len(TreeClusters(k)) = 2
       /\ \E a, b \in DOMAIN ItemsOf(k) :
            /\ a < b
            /\ AtMerge(cosineSimilarity(ItemsOf(k)[a].embedding, ItemsOf(k)[b].embedding))
            /\ ~InOneCluster(k, Range(ItemsOf(k)[a].allPids)
                                  \cup Range(ItemsOf(k)[b].allPids))

\* the number of text groups (names) whose pids are in the cluster
GroupsIn(groups, cluster) ==
  Cardinality({g \in DOMAIN groups :
                 ProcTable[groups[g].procs[1]].pid \in Range(cluster.processIds)})

LargestCluster(groups, clusters) ==
  \A n \in DOMAIN clusters : GroupsIn(groups, clusters[n]) <= MAX_CLUSTER_SIZE

Partition(k) == {Range(TreeClusters(k)[n].processIds) : n \in DOMAIN TreeClusters(k)}

\* call k had an embedding for every name of its active processes
Embedded(k) == Len(ItemsOf(k)) = Len(ByName(tasks[k].active))

NodeNodeSafari == <<1, 2, 4>>

\* C14: fullRecluster on two active "node server.js" processes and an active
\* Safari whose embedding is below the merge threshold from node's returns a
\* tree with exactly two clusters under the root, one with the two node pids
\* and one with Safari's pid alone.
C14NodeAndSafari ==
  \A k \in Returned :
    (/\ tasks[k].procs = NodeNodeSafari
     /\ Len(ItemsOf(k)) = 2
     /\ ~ReachesMerge(cosineSimilarity(ItemsOf(k)[1].embedding, ItemsOf(k)[2].embedding)))
      => /\ Len(tasks[k].tree.root.children) = 2
         /\ Len(TreeClusters(k)) = 2
         /\ \E n \in DOMAIN TreeClusters(k) :
              TreeClusters(k)[n].processIds = << ProcTable[1].pid, ProcTable[2].pid >>
         /\ \E n \in DOMAIN TreeClusters(k) :
              TreeClusters(k)[n].processIds = << ProcTable[4].pid >>

\* such a call returned, its descriptors being as C14 describes them
C14Witness ==
  /\ ProcTable[1].name = "node" /\ ProcTable[1].command = "node server.js"
  /\ ProcTable[2].name = "node" /\ ProcTable[2].command = "node server.js"
  /\ ProcTable[4].name = "Safari"
  /\ \E k \in Returned :
       /\ tasks[k].procs = NodeNodeSafari
       /\ tasks[k].active = NodeNodeSafari
       /\ Len(ItemsOf(k)) = 2
       /\ ~ReachesMerge(cosineSimilarity(ItemsOf(k)[1].embedding, ItemsOf(k)[2].embedding))
       /\ Partition(k) = {{ProcTable[1].pid, ProcTable[2].pid}, {ProcTable[4].pid}}

\* the clusters of the array an embedding is compared with
Comparable(clusters) == {n \in DOMAIN clusters : VecLen(clusters[n].centroid) > 0}

ReachesJoin(s) == SimGE(s, SIMILARITY_THRESHOLD.num, SIMILARITY_THRESHOLD.den)

\* the similarity is the assignment threshold exactly
AtJoin(s) ==
  /\ ReachesJoin(s)
  /\ ~FracLess(SIMILARITY_THRESHOLD.num * SIMILARITY_THRESHOLD.num,
               SIMILARITY_THRESHOLD.den * SIMILARITY_THRESHOLD.den,
               s.dot * s.dot, s.ma * s.mb)

\* the two vectors point the same way
Parallel(s) == s.dot > 0 /\ s.dot * s.dot = s.ma * s.mb

\* cluster n of the array is a nearest one, and the call added the pid to it:
\* it returned that cluster with isNew false, the pid is a member, and the
\* centroid is nearer to the embedding than before (as near, if the pid was
\* a member already or the centroid pointed the same way)
JoinedNearest(before, after, t, n) ==
  /\ \A x \in Comparable(before) :
       ~SimGT(cosineSimilarity(t.value, before[x].centroid),
              cosineSimilarity(t.value, before[n].centroid))
  /\ ~t.isNew
  /\ t.cluster = after[n]
  /\ after[n].id = before[n].id
  /\ ProcTable[t.procs[1]].pid \in Range(after[n].processIds)
  /\ ~SimGT(cosineSimilarity(t.value, before[n].centroid),
            cosineSimilarity(t.value, after[n].centroid))
  /\ \/ ProcTable[t.procs[1]].pid \in Range(before[n].processIds)
     \/ Parallel(cosineSimilarity(t.value, before[n].centroid))
     \/ SimGT(cosineSimilarity(t.value, after[n].centroid),
              cosineSimilarity(t.value, before[n].centroid))
  /\ \A x \in DOMAIN before : x # n => after[x] = before[x]

\* what C15 says of a call that returned t, the array being before and after
AssignedAsStated(before, after, t, idBefore, idAfter) ==
  IF \E n \in Comparable(before) :
       ReachesJoin(cosineSimilarity(t.value, before[n].centroid))
  THEN /\ idAfter = idBefore
       /\ DOMAIN after = DOMAIN before
       /\ \E n \in Comparable(before) : JoinedNearest(before, after, t, n)
  ELSE /\ t.isNew
       /\ t.cluster.processIds = << ProcTable[t.procs[1]].pid >>
       /\ t.cluster.centroid = t.value
       /\ idAfter = idBefore + 1
       /\ \A n \in DOMAIN before : before[n].id # t.cluster.id
       /\ after = before

\* C15: a call assignProcessToCluster(process, getCurrentClusters()) that
\* returns has, when the best similarity of the embedding to a non-empty
\* centroid is 0.75 or more, added the pid to that nearest cluster, returned
\* it with isNew false, created no cluster and moved its centroid toward the
\* embedding; otherwise it has returned a new cluster of this pid and this
\* embedding with isNew true.
C15Assign ==
  [][\A k \in DOMAIN tasks' :
       (k \notin DOMAIN tasks /\ tasks'[k].kind = "assign"
                              /\ tasks'[k].outcome = "fulfilled")
         => AssignedAsStated(currentClusters, currentClusters', tasks'[k],
                             idCounter, idCounter')]_vars

\* a call joined a cluster at exactly 0.75 and moved its centroid, and a call
\* below the threshold returned a new cluster
C15Witness ==
  /\ \E k \in AssignTasks :
       /\ tasks[k].outcome = "fulfilled" /\ ~tasks[k].isNew
       /\ Len(tasks[k].cluster.processIds) = 3
       /\ \E j \in Returned :
            \E n \in DOMAIN TreeClusters(j) :
              /\ TreeClusters(j)[n].id = tasks[k].cluster.id
              /\ AtJoin(cosineSimilarity(tasks[k].value, TreeClusters(j)[n].centroid))
              /\ TreeClusters(j)[n].centroid # tasks[k].cluster.centroid
  /\ \E k \in AssignTasks :
       /\ tasks[k].outcome = "fulfilled" /\ tasks[k].isNew
       /\ tasks[k].clusters # <<>>

NeedsTasks == {k \in DOMAIN tasks : tasks[k].kind = "needs"}

\* the calls of fullRecluster that had returned when call k was made
PriorTo(k) == {j \in Returned : j < k}

LastPrior(k) == CHOOSE j \in PriorTo(k) : \A x \in PriorTo(k) : x <= j

\* the singleton clusters assignProcessToCluster returned between calls j and k
DebtSince(j, k) ==
  Cardinality({a \in AssignTasks : j < a /\ a < k /\ tasks[a].outcome = "fulfilled"
                                          /\ tasks[a].isNew})

\* the four conditions of C16 for call k, the last recluster before it being j
DueSince(j, k) ==
  \/ DebtSince(j, k) >= SingletonLimit
  \/ tasks[k].at - tasks[j].tree.lastUpdated > ReclusterCeiling
  \/ ChangedBy(Len(tasks[k].procs), PidCount(TreeClusters(j)))

Due(k) ==
  IF PriorTo(k) = {}
  THEN TRUE
  ELSE DueSince(LastPrior(k), k)

\* C16: needsFullRecluster(processes) returns true exactly when no
\* fullRecluster has run before, or the singleton debt since the last one has
\* reached the limit, or more than the ceiling has passed since the last one,
\* or the length of the list differs by more than 20% from the number of pids
\* in the clusters of the last one.
C16TriggerPolicy == \A k \in NeedsTasks : tasks[k].needed <=> Due(k)

\* needsFullRecluster answered true right after a fullRecluster of the same
\* (empty) list had returned
C16Witness ==
  \E k \in NeedsTasks :
    /\ tasks[k].needed
    /\ PriorTo(k) # {}
    /\ ~DueSince(LastPrior(k), k)
    /\ tasks[k].procs = tasks[LastPrior(k)].procs
    /\ tasks[k].at = tasks[LastPrior(k)].tree.lastUpdated

\* the calls of fullRecluster that return in this step
Returning(before, after) ==
  {k \in DOMAIN after :
     /\ after[k].kind = "recluster" /\ after[k].outcome = "fulfilled"
     /\ (k \in DOMAIN before => before[k].outcome # "fulfilled")}

\* C17: when a call of fullRecluster returns its tree, whatever its input,
\* getCurrentClusters() is the list of the tree's clusters, the singleton debt
\* is 0 and lastFullRecluster is the time of the return, hence not 0.
C17StateReplaced ==
  [][\A k \in Returning(tasks, tasks') :
       /\ currentClusters' = Tail(tasks'[k].tree.flatList)
       /\ singletonCount' = 0
       /\ lastFullRecluster' = now'
       /\ lastFullRecluster' # 0]_vars

\* a fullRecluster without an active process has returned the empty tree,
\* after which the engine still holds the clusters and the debt from before,
\* or has never stamped a rebuild
C17Witness ==
  \E k \in Returned :
    /\ tasks[k].active = <<>>
    /\ TreeClusters(k) = <<>>
    /\ k = Len(tasks)
    /\ \/ lastFullRecluster = 0
       \/ getCurrentClusters # <<>> /\ singletonCount > 0

\* C18: fullRecluster on a list without an active process (the empty list, or
\* idle processes only) returns, without an error, a tree of the root alone:
\* the root has no children, the flat list is the root, and the root's
\* statistics are all zero.
C18EmptyTree ==
  \A k \in ReclusterTasks :
    ActiveProcesses(tasks[k].procs) = <<>> =>
      /\ tasks[k].outcome = "fulfilled"
      /\ tasks[k].tree.root.id = RootId
      /\ tasks[k].tree.root.children = <<>>
      /\ tasks[k].tree.root.processIds = <<>>
      /\ tasks[k].tree.flatList = << tasks[k].tree.root >>
      /\ tasks[k].tree.root.aggregateStats = ZeroStats

\* both kinds of input were given: the empty list and a list of idle
\* processes only, the latter after a recluster that made clusters
C18Witness ==
  /\ \E k \in Returned : tasks[k].procs = <<>>
  /\ \E j, k \in Returned :
       /\ j < k /\ TreeClusters(j) # <<>>
       /\ tasks[k].procs # <<>> /\ tasks[k].active = <<>>
       /\ tasks[k].tree.flatList = << tasks[k].tree.root >>


\* ------------------------------------------------- claims: interleaving

\* the calls of fullRecluster that are suspended on a fetch
Running(ts) == {k \in DOMAIN ts : ts[k].kind = "recluster" /\ ts[k].pc = "await"}

\* the calls of fullRecluster that publish a cluster set in the step
Publishing(before, after) == {k \in Returning(before, after) : after[k].active # <<>>}

\* the calls of assignProcessToCluster that return in the step
Assigning(before, after) ==
  {k \in DOMAIN after :
     /\ after[k].kind = "assign" /\ after[k].outcome = "fulfilled"
     /\ (k \in DOMAIN before => before[k].outcome # "fulfilled")}

ClusterIds(clusters) == [n \in DOMAIN clusters |-> clusters[n].id]

\* C19: a step in which a fullRecluster publishes makes getCurrentClusters()
\* the whole cluster list of the tree that call returns; any other step, a
\* step of a suspended fullRecluster included, leaves the list of current
\* clusters the same clusters as before, and leaves it untouched unless an
\* assignProcessToCluster joins a process to one of them.  No step shows a
\* part of the new set or a mix of old and new.
C19AtomicReplacement ==
  [][IF Publishing(tasks, tasks') # {}
     THEN \A k \in Publishing(tasks, tasks') :
            getCurrentClusters' = Tail(tasks'[k].tree.flatList)
     ELSE /\ ClusterIds(getCurrentClusters') = ClusterIds(getCurrentClusters)
          /\ getCurrentClusters' # getCurrentClusters =>
               \E a \in Assigning(tasks, tasks') : ~tasks'[a].isNew]_vars

\* a fullRecluster is suspended on its fetch after part of its batches were
\* answered, while the engine shows the whole set an earlier call published
C19Witness ==
  \E j \in Running(tasks), k \in Returned :
    /\ k < j
    /\ TreeClusters(k) # <<>>
    /\ getCurrentClusters = TreeClusters(k)
    /\ \E r \in DOMAIN requests : requests[r].task = j /\ requests[r].status = "ok"

\* C20: a call of assignProcessToCluster that changes the cluster state (a
\* current cluster's members or centroid, or the singleton debt) returns only
\* when no fullRecluster is between its start and its publish.
C20NoInterleaving ==
  [][\A a \in Assigning(tasks, tasks') :
       (getCurrentClusters' # getCurrentClusters \/ singletonCount' # singletonCount)
         => Running(tasks) = {}]_vars

\* an assignProcessToCluster called after every fullRecluster had started has
\* counted a singleton, and the debt is 0 again: a fullRecluster that was
\* running when the debt was counted has reset it
C20Witness ==
  \E a \in AssignTasks :
    /\ tasks[a].outcome = "fulfilled" /\ tasks[a].isNew
    /\ singletonCount = 0
    /\ \A k \in ReclusterTasks : k < a


\* ----------------------------------------------------- claims: statistics

\* the calls of refreshClusterStats made in the step
Refreshing(before, after) ==
  {k \in DOMAIN after : k \notin DOMAIN before /\ after[k].kind = "refresh"}

\* the positions of a process list whose pid is a member of the cluster
MembersIn(cluster, processes) ==
  {n \in DOMAIN processes : ProcTable[processes[n]].pid \in Range(cluster.processIds)}

RECURSIVE SumOver(_, _, _)
SumOver(positions, processes, field) ==
  IF positions = {} THEN 0
  ELSE LET n == CHOOSE x \in positions : TRUE
       IN OrZero(ProcTable[processes[n]][field])
            + SumOver(positions \ {n}, processes, field)

\* the statistics of the claim: sums over the listed processes of the cluster,
\* an absent network counter being 0
SumsOver(positions, processes) ==
  [totalCpu |-> SumOver(positions, processes, "cpu"),
   totalMem |-> SumOver(positions, processes, "mem"),
   totalNetIn |-> SumOver(positions, processes, "netIn"),
   totalNetOut |-> SumOver(positions, processes, "netOut"),
   processCount |-> Cardinality(positions)]

\* C21: a call refreshClusterStats(processes) leaves the list of current
\* clusters with the same clusters, each with the same id, processIds,
\* centroid, name, description, category, children, parent and depth; the
\* singleton debt and lastFullRecluster are unchanged; and every cluster's
\* aggregateStats become the sums of cpu, mem, netIn and netOut over the given
\* processes whose pid is in the cluster, processCount their number.
C21RefreshOnlyStats ==
  [][\A k \in Refreshing(tasks, tasks') :
       /\ DOMAIN getCurrentClusters' = DOMAIN getCurrentClusters
       /\ \A n \in DOMAIN getCurrentClusters :
            /\ [getCurrentClusters'[n] EXCEPT !.aggregateStats = ZeroStats]
                 = [getCurrentClusters[n] EXCEPT !.aggregateStats = ZeroStats]
            /\ getCurrentClusters'[n].aggregateStats
                 = SumsOver(MembersIn(getCurrentClusters[n], tasks'[k].procs),
                            tasks'[k].procs)
       /\ singletonCount' = singletonCount
       /\ lastFullRecluster' = lastFullRecluster]_vars

\* the statistics were refreshed twice over a cluster that has members in the
\* list and came out non-zero, and differ from those the recluster had set
C21Witness ==
  \E j, k \in DOMAIN tasks, r \in Returned :
    /\ r < j /\ j < k
    /\ tasks[j].kind = "refresh" /\ tasks[k].kind = "refresh"
    /\ k = Len(tasks)
    /\ \E n \in DOMAIN getCurrentClusters :
         /\ getCurrentClusters[n].aggregateStats.processCount > 0
         /\ getCurrentClusters[n].aggregateStats.totalCpu > 0
         /\ n \in DOMAIN TreeClusters(r)
         /\ TreeClusters(r)[n].id = getCurrentClusters[n].id
         /\ TreeClusters(r)[n].aggregateStats # getCurrentClusters[n].aggregateStats


\* ------------------------------------------------- claims: assignment frame

\* the calls of assignProcessToCluster that end in the step, however
Ending(before, after) ==
  {k \in DOMAIN after :
     /\ after[k].kind = "assign" /\ after[k].pc = "done"
     /\ (k \in DOMAIN before => before[k].pc # "done")}

\* the list a call was given, as it is before the step in which the call ends
Given(before, k, current) == IF k \in DOMAIN before THEN before[k].clusters ELSE current

\* the positions at which two lists of the same clusters differ
Grown(given, left) == {n \in DOMAIN given : left[n] # given[n]}

\* C22: when a call of assignProcessToCluster ends, the list it was given
\* holds the same clusters in the same order as before; every cluster has the
\* members it had, in the same order; at most one cluster has changed, and
\* that cluster has gained exactly the assigned pid as its last member.  The
\* same holds of the list of current clusters.
C22NeverRemoves ==
  [][\A a \in Ending(tasks, tasks') :
       /\ ClusterIds(tasks'[a].clusters) = ClusterIds(Given(tasks, a, getCurrentClusters))
       /\ ClusterIds(getCurrentClusters') = ClusterIds(getCurrentClusters)
       /\ Cardinality(Grown(Given(tasks, a, getCurrentClusters), tasks'[a].clusters)) <= 1
       /\ Cardinality(Grown(getCurrentClusters, getCurrentClusters')) <= 1
       /\ \A n \in Grown(Given(tasks, a, getCurrentClusters), tasks'[a].clusters) :
            tasks'[a].clusters[n].processIds
              = Append(Given(tasks, a, getCurrentClusters)[n].processIds,
                       ProcTable[tasks'[a].procs[1]].pid)
       /\ \A n \in Grown(getCurrentClusters, getCurrentClusters') :
            getCurrentClusters'[n].processIds
              = Append(getCurrentClusters[n].processIds, ProcTable[tasks'[a].procs[1]].pid)]_vars

\* a call that was suspended on its fetch has joined its process to a cluster
\* of two or more members, next to another cluster, in the list of current
\* clusters
C22Witness ==
  \E a \in AssignTasks :
    /\ tasks[a].outcome = "fulfilled" /\ ~tasks[a].isNew
    /\ tasks[a].awaiting # 0
    /\ Len(tasks[a].cluster.processIds) >= 3
    /\ Len(getCurrentClusters) >= 2
    /\ \E n \in DOMAIN getCurrentClusters : getCurrentClusters[n] = tasks[a].cluster


\* ------------------------------------------------- claims: failed fetches

\* a provider call of call k failed
FetchFailed(k) == \E r \in RequestsOf(k) : requests[r].status = "failed"

\* call k obtained the embedding of descriptor i: the key was cached when the
\* call looked, or a provider call of k that carried it succeeded
Obtained(k, i) ==
  \/ i \notin Range(tasks[k].uncached)
  \/ \E r \in RequestsOf(k) : requests[r].status = "ok" /\ i \in Range(requests[r].procs)

GroupPids(group) == {ProcTable[i].pid : i \in Range(group.procs)}

\* the groups of call k are treated as C23 says
SkipsUnembedded(k, groups) ==
  \A g \in DOMAIN groups :
    IF Obtained(k, groups[g].procs[1])
    THEN \/ InOneCluster(k, GroupPids(groups[g]))
         \/ /\ GroupPids(groups[g]) \cap MemberPids(k) = {}
            /\ Cardinality({x \in DOMAIN groups : Obtained(k, groups[x].procs[1])})
                 > KeepAllUpTo
    ELSE GroupPids(groups[g]) \cap MemberPids(k) = {}

\* C23: a fullRecluster one of whose provider calls failed has, once it is
\* over, returned a tree and was not rejected; no process of a name whose
\* embedding was not obtained is in a cluster of the tree; and the processes of
\* every name whose embedding was obtained (cached, or fetched by a provider
\* call that succeeded) are together in one cluster of the tree, as in a call
\* without a failure (where more than five names were obtained the post-filter
\* may have dropped the name's cluster).
C23FailureSkipsKeys ==
  \A k \in ReclusterTasks :
    (FetchFailed(k) /\ tasks[k].pc = "done")
      => /\ tasks[k].outcome = "fulfilled"
         /\ tasks[k].tree.root.id = RootId
         /\ SkipsUnembedded(k, ByName(tasks[k].active))

\* the second provider call of a fullRecluster failed after the first had
\* succeeded: the tree has clusters for the names of the first and none for
\* the processes of the second
C23Witness ==
  \E k \in Returned :
    /\ FetchFailed(k)
    /\ \E r \in RequestsOf(k) : requests[r].status = "ok"
    /\ TreeClusters(k) # <<>>
    /\ \E i \in Range(tasks[k].uncached) :
         ~Obtained(k, i) /\ ProcTable[i].pid \notin MemberPids(k)
    /\ \E i \in Range(tasks[k].uncached) :
         Obtained(k, i) /\ ProcTable[i].pid \in MemberPids(k)


\* the fetch a call of assignProcessToCluster awaited has failed
AssignFetchFailed(a) ==
  /\ tasks[a].awaiting # 0
  /\ requests[tasks[a].awaiting].status = "failed"

\* C24: a call of assignProcessToCluster whose embedding fetch failed is
\* fulfilled, not rejected and not left pending, and returns the process as a
\* new singleton cluster without an embedding (isNew true).
C24FallsBackToSingleton ==
  \A a \in AssignTasks :
    AssignFetchFailed(a)
      => /\ tasks[a].outcome = "fulfilled"
         /\ tasks[a].isNew
         /\ tasks[a].cluster.processIds = << ProcTable[tasks[a].procs[1]].pid >>
         /\ tasks[a].cluster.centroid = EmptyVec

\* the fetch of an assignProcessToCluster failed and the call was rejected;
\* a later call for the same process was rejected without a fetch of its own
C24Witness ==
  \E a, b \in AssignTasks :
    /\ a < b
    /\ AssignFetchFailed(a)
    /\ tasks[a].outcome = "rejected"
    /\ tasks[b].procs = tasks[a].procs
    /\ tasks[b].outcome = "rejected"
    /\ tasks[b].awaiting = 0


\* ------------------------------------------------- claims: end of the merge

\* two clusters of a tree could be merged: their centroids are at the merge
\* threshold or closer and together they hold at most MAX_CLUSTER_SIZE names
Mergeable(groups, clusters, pr) ==
  /\ ReachesMerge(SimOf(clusters, pr))
  /\ GroupsIn(groups, clusters[pr[1]]) + GroupsIn(groups, clusters[pr[2]])
       <= MAX_CLUSTER_SIZE

NoneMergeable(groups, clusters) ==
  \A pr \in PairsOf(clusters) : ~Mergeable(groups, clusters, pr)

\* C25: in a tree fullRecluster returned, no two clusters have centroids at
\* the merge threshold or closer and a combined number of names within
\* MAX_CLUSTER_SIZE: the merge went on until no such pair was left.
C25MergeExhausted ==
  \A k \in Returned : NoneMergeable(ByName(tasks[k].active), TreeClusters(k))

\* the most similar pair of a tree is over the size limit, and a less similar
\* pair that is within the limit and at the threshold was left unmerged
BlockedByLarger(groups, clusters) ==
  \E pr, qr \in PairsOf(clusters) :
    /\ Mergeable(groups, clusters, pr)
    /\ SimGT(SimOf(clusters, qr), SimOf(clusters, pr))
    /\ GroupsIn(groups, clusters[qr[1]]) + GroupsIn(groups, clusters[qr[2]])
         > MAX_CLUSTER_SIZE

C25Witness ==
  \E k \in Returned : BlockedByLarger(ByName(tasks[k].active), TreeClusters(k))


\* --------------------------------------------------- claims: the post-filter

\* the clusters the merge loop of call k ended with
LastRound(rounds) == rounds[Len(rounds)]

\* the clusters of at least MIN_CLUSTER_SIZE names
FullSized(last) == {x \in DOMAIN last : Len(last[x].embeddings) >= MIN_CLUSTER_SIZE}

InTree(k, cluster) ==
  \E n \in DOMAIN TreeClusters(k) : TreeClusters(k)[n].processIds = cluster.processIds

\* the filter of the claim: an undersized cluster is kept exactly when
\* without the undersized clusters five or fewer clusters would be left
KeptAsStated(k, last) ==
  \A x \in DOMAIN last :
    InTree(k, last[x]) <=> (x \in FullSized(last) \/ Cardinality(FullSized(last)) <= KeepAllUpTo)

\* C26: of the clusters the merge of a fullRecluster ended with, those of two
\* or more names are in the returned tree, and those of one name are in the
\* tree exactly when dropping the clusters of one name would leave five or
\* fewer clusters.
C26PostFilter ==
  \A k \in Returned : ItemsOf(k) # <<>> => KeptAsStated(k, LastRound(RoundsOf(k)))

\* the merge ended with more than five clusters of which at most five have
\* two names or more, and a cluster of one name is not in the tree
DroppedThoughFewLeft(k, last) ==
  /\ Len(last) > KeepAllUpTo
  /\ Cardinality(FullSized(last)) <= KeepAllUpTo
  /\ \E x \in DOMAIN last : x \notin FullSized(last) /\ ~InTree(k, last[x])

C26Witness ==
  \E k \in Returned : ItemsOf(k) # <<>> /\ DroppedThoughFewLeft(k, LastRound(RoundsOf(k)))


\* ------------------------------------------------- claims: the root's sums

\* the calls of fullRecluster that replaced the current clusters
Published == {k \in Returned : tasks[k].active # <<>>}

\* the call whose clusters are the current ones, where calls do not overlap
LastPublished(k) == k \in Published /\ \A j \in Published : j <= k

\* the tree call k returned, as the object is now: root.children is the array
\* fullRecluster made currentClusters, and the flat list holds the same
\* cluster objects, so what is done to the current clusters is done to the
\* tree of the call that published them
TreeNow(k) ==
  IF LastPublished(k)
  THEN TreeOf([tasks[k].tree.root EXCEPT !.children = getCurrentClusters],
              getCurrentClusters, tasks[k].tree.lastUpdated)
  ELSE tasks[k].tree

SumOfChildren(children) ==
  [totalCpu |-> SumSeq([n \in DOMAIN children |-> children[n].aggregateStats.totalCpu]),
   totalMem |-> SumSeq([n \in DOMAIN children |-> children[n].aggregateStats.totalMem]),
   totalNetIn |-> SumSeq([n \in DOMAIN children |-> children[n].aggregateStats.totalNetIn]),
   totalNetOut |-> SumSeq([n \in DOMAIN children |-> children[n].aggregateStats.totalNetOut]),
   processCount |-> SumSeq([n \in DOMAIN children |->
                              children[n].aggregateStats.processCount])]

RootIsSum(tree) == tree.root.aggregateStats = SumOfChildren(tree.root.children)

\* C27: the root of every tree fullRecluster returned has, for cpu, mem, netIn,
\* netOut and processCount, the sum of its children's statistics, when the
\* tree is returned and after every later refreshClusterStats and
\* assignProcessToCluster.
C27RootIsSumOfChildren ==
  \A k \in Returned : RootIsSum(TreeNow(k))

\* the statistics of the current clusters were refreshed after the tree was
\* returned: the children of its root carry the new statistics and the root
\* the sums of the old ones
C27Witness ==
  \E k \in Returned :
    /\ LastPublished(k)
    /\ tasks[Len(tasks)].kind = "refresh"
    /\ RootIsSum(tasks[k].tree)
    /\ TreeNow(k).root.children # <<>>
    /\ TreeNow(k).root.aggregateStats.processCount
         > SumOfChildren(TreeNow(k).root.children).processCount


\* ------------------------------------------------------------ claims: naming

NamingTasks == {k \in DOMAIN tasks : tasks[k].kind = "naming"}

InferTasks == {k \in DOMAIN tasks : tasks[k].kind = "infer"}

\* the names of a list without repeats, as a set
NameSet(names) == Range(names)

\* every name starts with the first n characters of name
SharedUpTo(names, name, n) == \A x \in NameSet(names) : startsWith(x, SubSeq(name, 1, n))

\* the longest of the given lengths
Longest(lengths) == CHOOSE x \in lengths : \A y \in lengths : y <= x

\* the longest string every name starts with
LongestCommonPrefix(names) ==
  SubSeq(names[1], 1,
         Longest({x \in 0..Len(names[1]) : SharedUpTo(names, names[1], x)}))

\* the names that account for over half the unique names
Dominant(names) == {x \in NameSet(names) : 2 > Cardinality(NameSet(names))}

Categories ==
  {"System", "Development", "Browser", "Communication", "Media", "Background", "Other"}

\* the name the first applicable step gives
StepName(names, prefix, category) ==
  IF Cardinality(NameSet(names)) = 1 THEN names[1]
  ELSE IF Len(prefix) >= 3 THEN prefix
  ELSE IF Dominant(names) # {} THEN (CHOOSE x \in Dominant(names) : TRUE) \o " & related"
  ELSE category \o " processes"

CategoryOrder ==
  <<"Browser", "Development", "Communication", "Media", "System", "Background">>

\* the keyword set of a category matches one of the names, given in lower case
Matches(category, lowered) ==
  \E p \in DOMAIN CategoryPatterns :
    /\ CategoryPatterns[p].category = category
    /\ \E w \in Range(CategoryPatterns[p].words), n \in DOMAIN lowered :
         Contains(lowered[n], w)

\* the first of the positions of the order, or Other
EarliestOf(hits) ==
  IF hits = {} THEN "Other"
  ELSE CategoryOrder[CHOOSE c \in hits : \A d \in hits : c <= d]

\* the first category of the order whose keyword set matches, or Other
EarliestMatch(names) ==
  EarliestOf({c \in DOMAIN CategoryOrder :
                Matches(CategoryOrder[c], [n \in DOMAIN names |-> toLowerCase(names[n])])})

\* C29: inferCategory returns the first of Browser, Development,
\* Communication, Media, System, Background whose keyword set matches one of
\* the names (in any letter case), Other if none matches, also as the category
\* of a named cluster; and two calls with the same names return the same
\* category.
C29FirstMatchingCategory ==
  /\ \A k \in InferTasks : tasks[k].category = EarliestMatch(tasks[k].names)
  /\ \A k \in NamingTasks : tasks[k].cluster.category = EarliestMatch(tasks[k].names)
  /\ \A j, k \in InferTasks : tasks[j].names = tasks[k].names
                                => tasks[j].category = tasks[k].category

\* names that match two keyword sets got the earlier category: Browser before
\* Development, System before Background
C29Witness ==
  \E j, k \in InferTasks :
    /\ tasks[j].names = <<"node", "Safari">>
    /\ tasks[j].category = "Browser"
    /\ tasks[k].names = <<"ssh-agent", "zsh">>
    /\ tasks[k].category = "System"

\* --------------------------------------------- claims: order of the phases

\* descriptor i is the first of its name among the active descriptors of t
FirstOfName(t, i) ==
  \E n \in DOMAIN t.active :
    /\ t.active[n] = i
    /\ \A m \in 1..(n - 1) : ProcTable[t.active[m]].name # ProcTable[i].name

\* the descriptors call k sent to the provider, as (request, position) pairs
SentBy(reqs, k) ==
  {<<r, n>> \in (DOMAIN reqs) \X (1..BatchSize) :
     reqs[r].task = k /\ n \in DOMAIN reqs[r].procs}

\* embedding follows deduplication: whatever call k sent, it sent the first
\* descriptor of a name, and no name twice
Deduplicated(ts, reqs, k) ==
  /\ \A x \in SentBy(reqs, k) : FirstOfName(ts[k], reqs[x[1]].procs[x[2]])
  /\ \A x, y \in SentBy(reqs, k) :
       x # y => ProcTable[reqs[x[1]].procs[x[2]]].name # ProcTable[reqs[y[1]].procs[y[2]]].name

\* the merge follows the embedding: no provider call of k is open, and the
\* clusters hold processes of names whose embedding the call obtained
EmbeddedBefore(ts, reqs, k, clusters) ==
  /\ \A r \in DOMAIN reqs : reqs[r].task = k => reqs[r].status # "inflight"
  /\ \A n \in DOMAIN clusters : \A pid \in Range(clusters[n].processIds) :
       \E i \in Range(ts[k].active), j \in Range(ts[k].active) :
         /\ ProcTable[i].pid = pid
         /\ ProcTable[j].name = ProcTable[i].name
         /\ FirstOfName(ts[k], j)
         /\ KeyOf[j] \in DOMAIN ts[k].result

\* names and statistics are complete: no cluster has the name of a new
\* cluster, and the statistics are the sums over the active members
NamedAndCounted(ts, k, clusters) ==
  \A n \in DOMAIN clusters :
    /\ clusters[n].name \notin {"", "Uncategorized"}
    /\ clusters[n].description # ""
    /\ clusters[n].category \in Categories
    /\ clusters[n].aggregateStats
         = SumsOver(MembersIn(clusters[n], ts[k].active), ts[k].active)

\* C30: within a call of fullRecluster the phases follow one another.  The
\* provider is sent one descriptor per name (deduplication before embedding);
\* in the step in which the call publishes, none of its provider calls is open
\* and its clusters hold only processes whose name was embedded (embedding
\* before merge), every cluster carries its name, description and category and
\* the statistics of its final members (merge before naming and stats), and
\* these clusters, a singleton debt of 0 and the time of the step become the
\* module state; in every other step, a step of a suspended call included, the
\* current clusters, the singleton debt and the rebuild stamp are not written.
C30PhasesInOrder ==
  [][/\ \A k \in DOMAIN tasks' :
          tasks'[k].kind = "recluster" => Deduplicated(tasks', requests', k)
     /\ IF Publishing(tasks, tasks') # {}
        THEN \A k \in Publishing(tasks, tasks') :
               /\ EmbeddedBefore(tasks', requests', k, Tail(tasks'[k].tree.flatList))
               /\ NamedAndCounted(tasks', k, Tail(tasks'[k].tree.flatList))
               /\ getCurrentClusters' = Tail(tasks'[k].tree.flatList)
               /\ singletonCount' = 0
               /\ lastFullRecluster' = now'
        ELSE UNCHANGED << currentClusters, singletonCount, lastFullRecluster >>]_vars

\* a call over descriptors that repeat names sent several provider calls, all
\* answered, and published a cluster of several processes with its name and
\* its statistics, which is the state now
C30Witness ==
  \E k \in Published :
    /\ Cardinality({r \in DOMAIN requests : requests[r].task = k /\ requests[r].status = "ok"}) >= 2
    /\ \E i, j \in Range(tasks[k].active) : i # j /\ ProcTable[i].name = ProcTable[j].name
    /\ getCurrentClusters = TreeClusters(k)
    /\ \E n \in DOMAIN getCurrentClusters :
         /\ Len(getCurrentClusters[n].processIds) >= 2
         /\ getCurrentClusters[n].name \notin {"", "Uncategorized"}
         /\ getCurrentClusters[n].aggregateStats.processCount >= 2
         /\ getCurrentClusters[n].aggregateStats.totalCpu > 0

\* ------------------------------------------------ claims: the singleton debt

\* the calls of assignProcessToCluster that returned a new singleton after
\* call j and before call k
SingletonsBetween(j, k) ==
  {a \in AssignTasks : j < a /\ a < k /\ tasks[a].outcome = "fulfilled" /\ tasks[a].isNew}

\* the singletons accumulated when call k was made: those since the last
\* fullRecluster that had returned, or all of them if none had
Accumulated(k) ==
  IF PriorTo(k) = {} THEN Cardinality(SingletonsBetween(0, k))
  ELSE Cardinality(SingletonsBetween(LastPrior(k), k))

\* the other triggers were absent when call k, the last call made, asked: a
\* rebuild is stamped, not longer ago than the ceiling, and the list is within
\* 20% of the pids of the current clusters
OthersAbsent(k) ==
  /\ k = Len(tasks)
  /\ PriorTo(k) # {}
  /\ lastFullRecluster # 0
  /\ tasks[k].at - lastFullRecluster <= ReclusterCeiling
  /\ ~ChangedBy(Len(tasks[k].procs), PidCount(currentClusters))

\* C31: the singleton debt is the number of singletons assignProcessToCluster
\* has returned since the last fullRecluster (a call that returns isNew raises
\* it by one, a call that joins a cluster leaves it), and with the other
\* triggers absent needsFullRecluster answers true exactly when that number
\* has reached the limit.
C31DebtCountsSingletons ==
  /\ singletonCount = Accumulated(Len(tasks) + 1)
  /\ \A k \in NeedsTasks :
       OthersAbsent(k) => (tasks[k].needed <=> Accumulated(k) >= SingletonLimit)

\* needsFullRecluster answered true, the other triggers absent, when fewer
\* singletons than the limit had been returned since the last fullRecluster:
\* that recluster had no active process and left the debt of before
C31Witness ==
  \E k \in NeedsTasks :
    /\ OthersAbsent(k)
    /\ tasks[k].needed
    /\ Accumulated(k) < SingletonLimit
    /\ tasks[LastPrior(k)].active = <<>>
    /\ singletonCount >= SingletonLimit

\* what holds of the debt: it is the number of singletons returned since the
\* last fullRecluster that had an active process
PublishedBefore(k) == {j \in Published : j < k}

SincePublish(k) ==
  IF PublishedBefore(k) = {} THEN Cardinality(SingletonsBetween(0, k))
  ELSE Cardinality(SingletonsBetween(
         CHOOSE j \in PublishedBefore(k) : \A x \in PublishedBefore(k) : x <= j, k))

DebtSincePublish ==
  /\ singletonCount = SincePublish(Len(tasks) + 1)
  /\ \A k \in NeedsTasks :
       OthersAbsent(k) => (tasks[k].needed <=> SincePublish(k) >= SingletonLimit)

\* the debt reached the limit and needsFullRecluster, the other triggers
\* absent, answered true; and it answered false one singleton below the limit
DebtAtLimit ==
  \/ \E k \in NeedsTasks :
       OthersAbsent(k) /\ tasks[k].needed /\ SincePublish(k) = SingletonLimit
  \/ \E k \in NeedsTasks :
       OthersAbsent(k) /\ ~tasks[k].needed /\ SincePublish(k) = SingletonLimit - 1

\* ------------------------------------------------------ claims: tied pairs

\* the pairs of the round that reach the threshold and are as similar as any
TiedBest(clusters) ==
  LET highest == CHOOSE pr \in PairsOf(clusters) :
                   \A other \in PairsOf(clusters) :
                     ~SimGT(SimOf(clusters, other), SimOf(clusters, pr))
  IN {pr \in PairsOf(clusters) :
        /\ ReachesMerge(SimOf(clusters, pr))
        /\ ~SimGT(SimOf(clusters, highest), SimOf(clusters, pr))}

\* pair a comes before pair b when the pairs (i, j), i < j, are read row by row
RowMajorBefore(a, b) == a[1] < b[1] \/ (a[1] = b[1] /\ a[2] <= b[2])

\* the first of the tied pairs in row-major order, <<>> if there is none
FirstTied(tied) ==
  IF tied = {} THEN <<>>
  ELSE CHOOSE pr \in tied : \A other \in tied : RowMajorBefore(pr, other)

\* the members of the clusters the merge arrives at when every round merges
\* the first tied pair, as long as the size limit allows it
RECURSIVE MergedFirstTied(_, _)
MergedFirstTied(clusters, pr) ==
  IF Len(clusters) <= 1 \/ pr = <<>> THEN clusters
  ELSE IF Len(clusters[pr[1]].embeddings) + Len(clusters[pr[2]].embeddings) > MAX_CLUSTER_SIZE
  THEN clusters
  ELSE LET rest == [n \in 1..(Len(clusters) - 2) |->
                      clusters[IF n < pr[1] THEN n ELSE IF n + 1 < pr[2] THEN n + 1 ELSE n + 2]]
           next == Append(rest, MergePair(clusters, pr[1], pr[2], 0))
       IN MergedFirstTied(next, FirstTied(TiedBest(next)))

MembersOf(clusters) == [n \in DOMAIN clusters |-> clusters[n].processIds]

\* the partition the claim determines for the items
DeterminedBy(items) ==
  IF Len(items) = 0 THEN <<>>
  ELSE MembersOf(PostFilter(MergedFirstTied(StartClusters(items, 0),
                                            FirstTied(TiedBest(StartClusters(items, 0))))))

\* C32: in every round of the merge of a fullRecluster the pair picked is,
\* among the pairs that tie on the highest similarity, the first in row-major
\* order over (i, j) with i < j; the clusters of the returned tree are those
\* that merging the first tied pair round after round arrives at, so two calls
\* with the same text groups and embeddings in the same order return the same
\* partition.
C32FirstTiedPairMerged ==
  /\ \A k \in Returned :
       LET rounds == RoundsOf(k)
       IN /\ \A n \in DOMAIN rounds :
               Len(rounds[n]) > 1 =>
                 BestPair(rounds[n]).pair = FirstTied(TiedBest(rounds[n]))
          /\ MembersOf(TreeClusters(k)) = DeterminedBy(ItemsOf(k))
  /\ LET items == [k \in Returned |-> ItemsOf(k)]
     IN \A j, k \in Returned :
          items[j] = items[k] => MembersOf(TreeClusters(j)) = MembersOf(TreeClusters(k))

\* a round of a returned call had several pairs tied on the highest
\* similarity, the first of them was merged, and a tied pair that comes later
\* stayed in different clusters
C32Witness ==
  \E k \in Returned :
    \E n \in DOMAIN RoundsOf(k) :
      /\ n < Len(RoundsOf(k))
      /\ Cardinality(TiedBest(RoundsOf(k)[n])) >= 2
      /\ n = 1
      /\ \E pr \in TiedBest(RoundsOf(k)[1]) :
           /\ pr # FirstTied(TiedBest(RoundsOf(k)[1]))
           /\ ~InOneCluster(k, Range(ItemsOf(k)[pr[1]].allPids)
                                 \cup Range(ItemsOf(k)[pr[2]].allPids))
      /\ InOneCluster(k, Range(ItemsOf(k)[1].allPids) \cup Range(ItemsOf(k)[2].allPids))

\* --------------------------------------------------- claims: similarities

CosineTasks == {k \in DOMAIN tasks : tasks[k].kind = "cosine"}

\* every component of the vector is 0 (so is its magnitude)
ZeroMagnitude(a) == \A i \in DOMAIN a.num : a.num[i] = 0

\* the clusters of the list whose centroid is not empty
Candidates(clusters) == {n \in DOMAIN clusters : clusters[n].centroid.num # <<>>}

\* C33: cosineSimilarity throws exactly when the two vectors differ in length,
\* and for vectors of one length of which one has magnitude zero it returns 0
\* without an error; and assignProcessToCluster compares the embedding with
\* the non-empty centroids only: it is rejected exactly when a non-empty
\* centroid of the given clusters differs in length from the embedding, a
\* cluster with an empty centroid never makes it throw and is never the
\* cluster it joins.
C33FailFastAndZero ==
  /\ \A k \in CosineTasks :
       /\ tasks[k].outcome = "rejected" <=> Len(tasks[k].a.num) # Len(tasks[k].b.num)
       /\ (tasks[k].outcome = "fulfilled"
             /\ (ZeroMagnitude(tasks[k].a) \/ ZeroMagnitude(tasks[k].b)))
            => tasks[k].similarity.dot = 0
  /\ \A k \in AssignTasks :
       tasks[k].pc = "done" =>
         /\ tasks[k].outcome = "rejected"
              <=> \E n \in Candidates(tasks[k].clusters) :
                    Len(tasks[k].clusters[n].centroid.num) # Len(tasks[k].value.num)
         /\ (tasks[k].outcome = "fulfilled" /\ ~tasks[k].isNew)
              => tasks[k].cluster.centroid.num # <<>>

\* cosineSimilarity threw for vectors of different lengths and returned 0 for
\* a zero vector, and an assignProcessToCluster given a cluster with an empty
\* centroid returned a new singleton for an embedding that is not empty
C33Witness ==
  /\ \E k \in CosineTasks : tasks[k].outcome = "rejected"
  /\ \E k \in CosineTasks :
       /\ tasks[k].outcome = "fulfilled"
       /\ ZeroMagnitude(tasks[k].a) /\ ~ZeroMagnitude(tasks[k].b)
       /\ tasks[k].a.num # <<>>
  /\ \E k \in AssignTasks :
       /\ tasks[k].outcome = "fulfilled" /\ tasks[k].isNew
       /\ tasks[k].value.num # <<>>
       /\ \E n \in DOMAIN tasks[k].clusters : tasks[k].clusters[n].centroid.num = <<>>

\* ------------------------------------------------ claims: the pending map

\* C34: a key is in pendingEmbeddings only while the provider call registered
\* for it is in flight, and a call of getProcessEmbedding is never rejected
\* with the failure of a provider call that had ended before the call was
\* made: it awaits a call in flight or issues one of its own.
C34PendingOnlyInFlight ==
  /\ \A key \in DOMAIN pendingEmbeddings :
       requests[pendingEmbeddings[key]].status = "inflight"
  /\ \A k \in GetTasks : tasks[k].outcome = "rejected" => tasks[k].awaiting # 0

\* the provider call of a key failed, the key is still registered with it, and
\* a call made afterwards for the key was rejected at once: no new provider
\* call was issued for it
C34Witness ==
  \E k \in GetTasks :
    /\ tasks[k].outcome = "rejected" /\ tasks[k].awaiting = 0
    /\ TaskKey(k) \in DOMAIN pendingEmbeddings
    /\ requests[pendingEmbeddings[TaskKey(k)]].status = "failed"
    /\ requests[pendingEmbeddings[TaskKey(k)]].task < k
    /\ FetchesOf(TaskKey(k)) = {pendingEmbeddings[TaskKey(k)]}

\* ------------------------------------------- claims: asked after a recluster

\* call k asked about the list that call j, the last call before it, had just
\* reclustered; j had an active process, and not more than the ceiling has
\* passed
AskedRightAfter(j, k) ==
  /\ j \in Returned /\ k \in NeedsTasks
  /\ k = j + 1
  /\ tasks[j].active # <<>>
  /\ tasks[k].procs = tasks[j].procs
  /\ tasks[k].at - tasks[j].tree.lastUpdated <= ReclusterCeiling

\* C35: needsFullRecluster(P) asked right after fullRecluster(P) returned, P
\* having an active process, within the ceiling and with no assignment in
\* between, answers false, however many processes of P are in no cluster.
C35SettledAfterRecluster ==
  \A j, k \in DOMAIN tasks : AskedRightAfter(j, k) => ~tasks[k].needed

\* needsFullRecluster answered true at the very time fullRecluster of the
\* same list had returned: one of the two processes is idle and in no cluster
C35Witness ==
  \E j, k \in DOMAIN tasks :
    /\ AskedRightAfter(j, k)
    /\ tasks[k].needed
    /\ tasks[k].at = tasks[j].tree.lastUpdated
    /\ singletonCount = 0 /\ lastFullRecluster = tasks[k].at
    /\ Len(tasks[j].active) < Len(tasks[j].procs)
    /\ getCurrentClusters = TreeClusters(j)
    /\ PidCount(getCurrentClusters) = Len(tasks[j].active)

\* what holds: the answer is true exactly when the length of the list differs
\* by more than 20% from the number of pids the recluster put in clusters
SettledUnlessChanged ==
  \A j, k \in DOMAIN tasks :
    AskedRightAfter(j, k) =>
      (tasks[k].needed <=> ChangedBy(Len(tasks[k].procs), PidCount(TreeClusters(j))))

\* ------------------------------------------- claims: one cluster for a pid

\* the singletons assignProcessToCluster returned for the current list
SingletonsGiven ==
  {a \in AssignTasks : /\ tasks[a].outcome = "fulfilled" /\ tasks[a].isNew
                       /\ tasks[a].epoch = Publishes}

\* the clusters of the current list, and the singletons returned for it, that
\* have the pid as a member
HoldersInList(pid) == {n \in DOMAIN getCurrentClusters : pid \in Range(getCurrentClusters[n].processIds)}

HoldersAmongNew(pid) == {a \in SingletonsGiven : pid \in Range(tasks[a].cluster.processIds)}

AllPids == {ProcTable[i].pid : i \in ProcIds}

\* C36: after any calls of assignProcessToCluster on the current list, every
\* pid is a member of at most one cluster among those of the list and the
\* singletons the calls returned.
C36PidInOneCluster ==
  \A pid \in AllPids :
    Cardinality(HoldersInList(pid)) + Cardinality(HoldersAmongNew(pid)) <= 1

\* a pid that a recluster had put in a cluster was assigned and is now also a
\* member of another cluster of the list, or of a new singleton
C36Witness ==
  \E a \in AssignTasks :
    LET pid == ProcTable[tasks[a].procs[1]].pid
    IN /\ tasks[a].outcome = "fulfilled" /\ tasks[a].epoch = Publishes
       /\ \E j \in Published : j < a /\ pid \in MemberPids(j)
       /\ \E n \in HoldersInList(pid) : getCurrentClusters[n].id # tasks[a].cluster.id
       /\ \A x \in AllPids : \A j \in Published : x \in MemberPids(j) => 
            Cardinality({n \in DOMAIN TreeClusters(j) : x \in Range(TreeClusters(j)[n].processIds)}) = 1

OneHolderInList == \A pid \in AllPids : Cardinality(HoldersInList(pid)) <= 1
OneHolderAmongNew == \A pid \in AllPids : Cardinality(HoldersAmongNew(pid)) <= 1

\* ------------------------------------------------ claims: the cache's texts

CacheTasks == {k \in DOMAIN tasks : tasks[k].kind = "cache"}
CachedTasks == {k \in DOMAIN tasks : tasks[k].kind = "cached"}

\* the calls of cacheEmbedding made for the text before call k
WritesBefore(k, text) == {w \in CacheTasks : w < k /\ tasks[w].text = text}

LastOf(calls) == CHOOSE w \in calls : \A x \in calls : x <= w

\* C37: getCachedEmbedding(t) returns nothing, or the vector of the last
\* cacheEmbedding(t, .) made for the same text t; and a cacheEmbedding that
\* repeats the call before it, text and vector, leaves the table unchanged.
C37CacheIsolatesTexts ==
  /\ \A k \in CachedTasks :
       \/ tasks[k].value = NoRow
       \/ /\ WritesBefore(k, tasks[k].text) # {}
          /\ tasks[k].value = tasks[LastOf(WritesBefore(k, tasks[k].text))].embedding
  /\ \A k \in CacheTasks :
       (k - 1 \in CacheTasks /\ tasks[k - 1].text = tasks[k].text
                              /\ tasks[k - 1].embedding = tasks[k].embedding)
         => tasks[k].same

\* getCachedEmbedding returned, for a text never cached, the vector that was
\* cached for another text
C37Witness ==
  \E k \in CachedTasks :
    /\ tasks[k].value # NoRow
    /\ WritesBefore(k, tasks[k].text) = {}
    /\ \E w \in CacheTasks :
         /\ w < k /\ tasks[w].text # tasks[k].text
         /\ tasks[w].embedding = tasks[k].value
         /\ hashText(tasks[w].text) = hashText(tasks[k].text)

\* what holds: a read returns the vector of the last write under the same
\* hash, whatever its text, and nothing when there was none
WritesUnder(k, text) == {w \in CacheTasks : w < k /\ hashText(tasks[w].text) = hashText(text)}

ReadsLastUnderHash ==
  \A k \in CachedTasks :
    IF WritesUnder(k, tasks[k].text) = {} THEN tasks[k].value = NoRow
    ELSE tasks[k].value = tasks[LastOf(WritesUnder(k, tasks[k].text))].embedding

\* ------------------------------------------- claims: overlapping reclusters

\* the call of fullRecluster that started last
LastStarted == CHOOSE k \in ReclusterTasks : \A x \in ReclusterTasks : x <= k

\* C38: when no call of fullRecluster is running any more and the call that
\* started last has published, the current clusters are the clusters of its
\* tree and the rebuild stamp is its time: the result of a call that started
\* earlier is not what remains.
C38LastStartedWins ==
  (ReclusterTasks # {} /\ Running(tasks) = {} /\ LastStarted \in Published)
    => /\ getCurrentClusters = TreeClusters(LastStarted)
       /\ lastFullRecluster = tasks[LastStarted].tree.lastUpdated

\* two calls on different process lists overlapped and both have published:
\* the current clusters are those of the call that started first and hold the
\* pids of its list, not those of the list given last
C38Witness ==
  \E j, k \in Published :
    /\ j < k /\ k = LastStarted
    /\ Running(tasks) = {}
    /\ tasks[j].procs # tasks[k].procs
    /\ getCurrentClusters = TreeClusters(j)
    /\ PidCount(getCurrentClusters) # PidCount(TreeClusters(k))
    /\ \E rj \in RequestsOf(j), rk \in RequestsOf(k) : rj < rk

\* ------------------------------------------------------ claims: termination

\* every round of the merge of call k leaves one cluster less than the round
\* before, and there are no more rounds than text groups
RoundsShrink(rounds, groups) ==
  /\ \A n \in 1..(Len(rounds) - 1) : Len(rounds[n + 1]) = Len(rounds[n]) - 1
  /\ Len(rounds) <= (IF groups = 0 THEN 1 ELSE groups)
  /\ Len(rounds[Len(rounds)]) >= (IF groups = 0 THEN 0 ELSE 1)

MergeShrinks == \A k \in Returned : RoundsShrink(RoundsOf(k), Len(ItemsOf(k)))

\* C39: every iteration of the merge loop of a fullRecluster either merges
\* two clusters, leaving one cluster less, or ends the loop, so the loop makes
\* fewer rounds than there are text groups; and when every provider call is
\* answered or fails, every call of fullRecluster that was started completes.
C39Terminates ==
  /\ []MergeShrinks
  /\ \A k \in 1..MaxAnswered : (k \in Running(tasks)) ~> (k \in DOMAIN tasks /\ tasks[k].pc = "done")

\* a fullRecluster that waited for several provider calls, one of which
\* failed, has returned a tree after a merge of more than one round
C39Witness ==
  \E k \in Returned :
    /\ Len(RoundsOf(k)) >= 3
    /\ Cardinality(RequestsOf(k)) >= 2
    /\ \E r \in RequestsOf(k) : requests[r].status = "failed"
    /\ Running(tasks) = {}

====
